---- MODULE Spec2Model ----
(***************************************************************************)
(* A model of the OSCQuery server of node-oscquery: the method tree, the   *)
(* mutator API of OSCQueryServer and the WebSocket hub                     *)
(* (OSCQueryWebSocketServer) with its prefix subscriptions.                *)
(*                                                                         *)
(* Strings are sequences of one-character strings, so that                 *)
(* path.split("/"), "/" + components.join("/") and path.startsWith(...)    *)
(* are computed and not assumed.                                           *)
(***************************************************************************)
EXTENDS Integers, Sequences, FiniteSets, TLC

VARIABLES
    nodes,            \* the heap of OSCNode objects reachable from _root
    broadcastOpt,     \* OSCQueryServiceOptions.broadcast (truthy or not)
    hubState,         \* "null": server._wsServer is null; "created": hub built,
                      \* not started; "running": hub._wsServer is set
    wsClients,        \* OSCQueryWebSocketServer._wsClients
    sock,             \* per connection: state of the underlying WebSocket
    subscribedPaths,  \* per connection: WebSocketClient.subscribedPaths
    sent,             \* per connection: frames handed to ws.send by the last step
    bcast,            \* calls of the hub's broadcast methods made by the last step
    inbound,          \* the OSC message the last step received, if it received one
    lastOp,           \* the operation performed by the last step
    response,         \* the HTTP response the last step wrote, if it wrote one
    codec,            \* an OSC message on its way through the encoder and the decoder
    life,             \* the progress of start() and stop(): listeners and promises
    disc,             \* the discovery clients: tracked services and events emitted
    parse,            \* a value on its way through a serializer and a parser
    call              \* the mutator call under way, statement by statement

vars == <<nodes, broadcastOpt, hubState, wsClients, sock, subscribedPaths,
          sent, bcast, inbound, lastOp, response, codec, life, disc, parse,
          call>>

-----------------------------------------------------------------------------
(* Bounds and input alphabets *)

\* longest argument list of an OSC message
MaxArgs == 2

Clients == {"A", "B"}
Sources == Clients \cup {"udp"}
SegNames == {<<"a">>, <<"b">>}
Values == {"v1"}

Undefined == "undefined"
Null == <<>>
None == <<>>
Some(x) == <<x>>

-----------------------------------------------------------------------------
(* Strings *)

\* String.prototype.startsWith
StartsWith(s, prefix) ==
    /\ Len(prefix) <= Len(s)
    /\ \A i \in 1..Len(prefix) : s[i] = prefix[i]

\* path.split("/").filter(p => p !== ""): cur is the segment being read
RECURSIVE SplitFrom(_, _, _)
SplitFrom(s, i, cur) ==
    IF i > Len(s)
    THEN IF cur = <<>> THEN <<>> ELSE <<cur>>
    ELSE IF s[i] = "/"
         THEN (IF cur = <<>> THEN <<>> ELSE <<cur>>) \o SplitFrom(s, i + 1, <<>>)
         ELSE SplitFrom(s, i + 1, Append(cur, s[i]))

Split(path) == SplitFrom(path, 1, <<>>)

\* pathComponents.join("/")
RECURSIVE JoinSlash(_)
JoinSlash(segs) ==
    IF segs = <<>> THEN <<>>
    ELSE IF Len(segs) = 1 THEN segs[1]
    ELSE segs[1] \o <<"/">> \o JoinSlash(Tail(segs))

\* the spelling "/seg1/seg2" of a list of segments; "/" for the empty list
CanonicalPath(segs) == <<"/">> \o JoinSlash(segs)

\* the paths handed to addMethod and removeMethod: the root, two top-level
\* nodes and two nodes below the first of them
SegLists ==
    {<<>>, <<<<"a">>>>, <<<<"b">>>>, <<<<"a">>, <<"a">>>>, <<<<"a">>, <<"b">>>>}
PathInputs == {CanonicalPath(sl) : sl \in SegLists}

-----------------------------------------------------------------------------
(* OSCQAccess *)

NO_VALUE == 0
READONLY == 1
WRITEONLY == 2
READWRITE == 3

-----------------------------------------------------------------------------
(* OSCNode.  A node object is identified by the list of names from the root *)
(* to the place where it was created; parent and children are explicit     *)
(* references, as in the heap.                                             *)

RootName == <<>>
RootId == <<RootName>>

EmptyChildren == [n \in {} |-> Null]

\* new OSCNode(name, parent)
NewNode(name, parent) ==
    [name        |-> name,
     parent      |-> parent,
     children    |-> EmptyChildren,
     description |-> Undefined,
     access      |-> None,
     tags        |-> None,
     critical    |-> None,
     arguments   |-> None]

\* the nodes that can be reached from id through children
RECURSIVE Descendants(_, _)
Descendants(h, id) ==
    {id} \cup UNION {Descendants(h, h[id].children[n]) : n \in DOMAIN h[id].children}

\* what is left of the heap once unreferenced nodes are collected
Collect(h) == [id \in Descendants(h, RootId) |-> h[id]]

hasChild(h, id, seg) == seg \in DOMAIN h[id].children

getChild(h, id, seg) == h[id].children[seg]

\* getOrCreateChild(seg): the heap afterwards; the child is getChild of it
getOrCreateChild(h, id, seg) ==
    IF hasChild(h, id, seg) THEN h
    ELSE LET child == Append(id, seg)
         IN [x \in DOMAIN h \cup {child} |->
               IF x = child THEN NewNode(seg, id)
               ELSE IF x = id
                    THEN [h[id] EXCEPT !.children =
                            [n \in DOMAIN h[id].children \cup {seg} |->
                               IF n = seg THEN child ELSE h[id].children[n]]]
                    ELSE h[x]]

\* removeChild(seg): detaches the child; nothing happens when it is absent
removeChild(h, id, seg) ==
    IF ~hasChild(h, id, seg) THEN h
    ELSE Collect([h EXCEPT ![id].children =
                    [n \in DOMAIN h[id].children \ {seg} |-> h[id].children[n]]])

\* setOpts(opts): replaces the declared attributes
setOpts(h, id, opts) ==
    [h EXCEPT ![id].description = opts.description,
              ![id].access      = opts.access,
              ![id].tags        = opts.tags,
              ![id].critical    = opts.critical,
              ![id].arguments   = opts.arguments]

\* isEmpty()
isEmpty(n) ==
    /\ n.access \in {None, Some(NO_VALUE)}
    /\ n.arguments = None
    /\ DOMAIN n.children = {}
    /\ n.description = Undefined
    /\ n.tags = None
    /\ n.critical = None

\* number of declared arguments; none when the node is a container
NumArgs(n) == IF n.arguments = None THEN 0 ELSE Len(n.arguments[1])

\* setValue(i, v) / unsetValue(i) raise InvalidIndex when i >= |arguments|
ValidIndex(n, i) == i < NumArgs(n)

\* OSCNode.setValue(i, v) with a valid index (i counts from 0)
nodeSetValue(h, id, i, v) ==
    [h EXCEPT ![id].arguments = Some([@[1] EXCEPT ![i + 1].value = v])]

\* OSCNode.unsetValue(i) with a valid index
nodeUnsetValue(h, id, i) == nodeSetValue(h, id, i, Undefined)

\* serialize().ACCESS: emitted only when the attribute is set
SerializedAccess(n) == n.access

-----------------------------------------------------------------------------
(* OSCQueryWebSocketServer: broadcasts.  A broadcast works on a record w    *)
(* with the tree (nodes), the client registry (clients), the frames handed  *)
(* to each socket (sent) and the broadcast calls made so far (bcast).       *)

\* ws.readyState as the hub reads it
readyState(c) == IF sock[c] \in {"OPEN", "BROKEN"} THEN "OPEN" ELSE "CLOSED"

\* whether ws.send(...) on this socket raises
SendRaises(c) == sock[c] = "BROKEN"

\* the loop that sets shouldNotify, had it tested path.startsWith(subscribedPath)
ShouldNotifyNoSlash(subs, path) ==
    \E subscribedPath \in subs :
        path = subscribedPath \/ StartsWith(path, subscribedPath)

\* the loop that sets shouldNotify
ShouldNotify(subs, path) ==
    \E subscribedPath \in subs :
        path = subscribedPath \/ StartsWith(path, subscribedPath \o <<"/">>)

\* the clients written to, had the broadcast skipped the subscription filter
TargetsUnfiltered(clients, path) ==
    {c \in clients : readyState(c) = "OPEN"}

\* the clients written to, had the broadcast passed over empty subscription sets
TargetsListenersOnly(clients, path) ==
    {c \in clients :
        /\ readyState(c) = "OPEN"
        /\ ShouldNotify(subscribedPaths[c], path)}

\* the clients a filtered broadcast of path writes to
Targets(clients, path) ==
    {c \in clients :
        /\ readyState(c) = "OPEN"
        /\ (Cardinality(subscribedPaths[c]) = 0 \/ ShouldNotify(subscribedPaths[c], path))}

\* the sends of a broadcast without the try/catch: a send that raises ends the
\* loop, the clients not yet visited get nothing and the registry keeps the client
SendToNoCatch(w, targets, frame) ==
    LET failing == {c \in targets : SendRaises(c)}
    IN [w EXCEPT
          !.sent = [c \in Clients |->
                      IF c \in targets /\ (failing = {} \/ c \in failing)
                      THEN Append(w.sent[c], [frame EXCEPT !.ok = ~SendRaises(c)])
                      ELSE w.sent[c]]]

\* try { client.ws.send(frame) } catch { this._wsClients.delete(client) }, for each target
SendTo(w, targets, frame) ==
    [w EXCEPT
        !.sent = [c \in Clients |->
                    IF c \in targets
                    THEN Append(w.sent[c], [frame EXCEPT !.ok = ~SendRaises(c)])
                    ELSE w.sent[c]],
        !.clients = @ \ {c \in targets : SendRaises(c)}]

Frame(kind, path, args, old) ==
    [kind |-> kind, path |-> path, args |-> args, old |-> old, ok |-> TRUE]

broadcastPathChanged(w, path) ==
    IF Cardinality(w.clients) = 0 THEN w
    ELSE SendTo(w, Targets(w.clients, path), Frame("PATH_CHANGED", path, <<>>, <<>>))

broadcastOSCMessage(w, path, args) ==
    IF Cardinality(w.clients) = 0 THEN w
    ELSE SendTo(w, Targets(w.clients, path), Frame("OSC", path, args, <<>>))

\* broadcastPathRenamed, had it applied the subscription filter to the new path
broadcastPathRenamedFiltered(w, oldPath, newPath) ==
    IF Cardinality(w.clients) = 0 THEN w
    ELSE SendTo(w, Targets(w.clients, newPath), Frame("PATH_RENAMED", newPath, <<>>, oldPath))

\* broadcastPathRenamed(oldPath, newPath): the frame's path is NEW, its old is OLD
broadcastPathRenamed(w, oldPath, newPath) ==
    IF Cardinality(w.clients) = 0 THEN w
    ELSE SendTo(w, {c \in w.clients : readyState(c) = "OPEN"},
                Frame("PATH_RENAMED", newPath, <<>>, oldPath))

\* getClientCount()
getClientCount == Cardinality(wsClients)

-----------------------------------------------------------------------------
(* OSCQueryServer *)

\* if (this._wsServer) this._wsServer.broadcastPathChanged(path)
NotifyPathChanged(w, path) ==
    IF hubState = "null" THEN w
    ELSE [broadcastPathChanged(w, path) EXCEPT
            !.bcast = Append(@, [kind |-> "PATH_CHANGED", path |-> path])]

\* the walk of _getNodeForPath and _handleGet from node id; Null on a miss
RECURSIVE Walk(_, _, _)
Walk(h, id, segs) ==
    IF segs = <<>> THEN id
    ELSE IF hasChild(h, id, Head(segs))
         THEN Walk(h, getChild(h, id, Head(segs)), Tail(segs))
         ELSE Null

_getNodeForPath(h, path) == Walk(h, RootId, Split(path))

\* the loop of _getPathForNode: the names from below the root down to id
RECURSIVE PathComponents(_, _)
PathComponents(h, id) ==
    IF id = Null \/ h[id].parent = Null THEN <<>>
    ELSE Append(PathComponents(h, h[id].parent), h[id].name)

_getPathForNode(h, id) == <<"/">> \o JoinSlash(PathComponents(h, id))

\* the loop of addMethod, had it built each node with new OSCNode(name) and
\* stored it in the parent's children, whether or not a child was there
RECURSIVE CreatePathFresh(_, _, _)
CreatePathFresh(h, id, segs) ==
    IF segs = <<>> THEN [h |-> h, node |-> id]
    ELSE LET child == Append(id, Head(segs))
             h1 == [x \in DOMAIN h \cup {child} |->
                      IF x = child THEN NewNode(Head(segs), id)
                      ELSE IF x = id
                           THEN [h[id] EXCEPT !.children =
                                   [n \in DOMAIN h[id].children \cup {Head(segs)} |->
                                      IF n = Head(segs) THEN child ELSE h[id].children[n]]]
                           ELSE h[x]]
         IN CreatePathFresh(Collect(h1), child, Tail(segs))

\* the loop of addMethod, had a created node not been given its parent
RECURSIVE CreatePathOrphan(_, _, _)
CreatePathOrphan(h, id, segs) ==
    IF segs = <<>> THEN [h |-> h, node |-> id]
    ELSE LET h1 == getOrCreateChild(h, id, Head(segs))
             child == getChild(h1, id, Head(segs))
             h2 == IF hasChild(h, id, Head(segs)) THEN h1
                   ELSE [h1 EXCEPT ![child].parent = Null]
         IN CreatePathOrphan(h2, child, Tail(segs))

\* the loop of addMethod: [h: the heap, node: the node reached]
RECURSIVE CreatePath(_, _, _)
CreatePath(h, id, segs) ==
    IF segs = <<>> THEN [h |-> h, node |-> id]
    ELSE LET h1 == getOrCreateChild(h, id, Head(segs))
         IN CreatePath(h1, getChild(h1, id, Head(segs)), Tail(segs))

addMethod(w, path, params) ==
    LET made == CreatePath(w.nodes, RootId, Split(path))
        w1 == [w EXCEPT !.nodes = setOpts(made.h, made.node, params)]
    IN NotifyPathChanged(w1, path)

\* the empty description {} of node.setOpts({})
EmptyOpts ==
    [description |-> Undefined, access |-> None, tags |-> None,
     critical |-> None, arguments |-> None]

\* the while loop of removeMethod, had it not tested node.isEmpty()
RECURSIVE RemoveLoopAlways(_, _)
RemoveLoopAlways(w, node) ==
    IF w.nodes[node].parent # Null
    THEN LET parent == w.nodes[node].parent
             parentPath == _getPathForNode(w.nodes, parent)
             w1 == [w EXCEPT !.nodes = removeChild(@, parent, w.nodes[node].name)]
             w2 == IF Len(parentPath) > 0 THEN NotifyPathChanged(w1, parentPath) ELSE w1
         IN RemoveLoopAlways(w2, parent)
    ELSE w

\* the while loop of removeMethod, had it not broadcast the parent paths
RECURSIVE RemoveLoopSilent(_, _)
RemoveLoopSilent(w, node) ==
    IF w.nodes[node].parent # Null /\ isEmpty(w.nodes[node])
    THEN LET parent == w.nodes[node].parent
             w1 == [w EXCEPT !.nodes = removeChild(@, parent, w.nodes[node].name)]
         IN RemoveLoopSilent(w1, parent)
    ELSE w

\* the while loop of removeMethod, had it not looked at the node's children
RECURSIVE RemoveLoopChildren(_, _)
RemoveLoopChildren(w, node) ==
    IF /\ w.nodes[node].parent # Null
       /\ isEmpty([w.nodes[node] EXCEPT !.children = EmptyChildren])
    THEN LET parent == w.nodes[node].parent
             parentPath == _getPathForNode(w.nodes, parent)
             w1 == [w EXCEPT !.nodes = removeChild(@, parent, w.nodes[node].name)]
             w2 == IF Len(parentPath) > 0 THEN NotifyPathChanged(w1, parentPath) ELSE w1
         IN RemoveLoopChildren(w2, parent)
    ELSE w

\* the while loop of removeMethod, entered at node
RECURSIVE RemoveLoop(_, _)
RemoveLoop(w, node) ==
    IF w.nodes[node].parent # Null /\ isEmpty(w.nodes[node])
    THEN LET parent == w.nodes[node].parent
             parentPath == _getPathForNode(w.nodes, parent)
             w1 == [w EXCEPT !.nodes = removeChild(@, parent, w.nodes[node].name)]
             w2 == IF Len(parentPath) > 0 THEN NotifyPathChanged(w1, parentPath) ELSE w1
         IN RemoveLoop(w2, parent)
    ELSE w

\* removeMethod, had it only cleared the node and left it in the tree
removeMethodNoPrune(w, path) ==
    LET node == _getNodeForPath(w.nodes, path)
    IN IF node = Null THEN w
       ELSE NotifyPathChanged([w EXCEPT !.nodes = setOpts(@, node, EmptyOpts)], path)

removeMethod(w, path) ==
    LET node == _getNodeForPath(w.nodes, path)
    IN IF node = Null THEN w
       ELSE NotifyPathChanged(
              RemoveLoop([w EXCEPT !.nodes = setOpts(@, node, EmptyOpts)], node),
              path)

\* setValue, had it broadcast before it called node.setValue
serverSetValueBroadcastFirst(w, path, arg_index, value) ==
    LET node == _getNodeForPath(w.nodes, path)
    IN IF node = Null THEN [w |-> w, raised |-> FALSE]
       ELSE IF ~ValidIndex(w.nodes[node], arg_index)
            THEN [w |-> NotifyPathChanged(w, path), raised |-> TRUE]
       ELSE [w |-> NotifyPathChanged(
                     [w EXCEPT !.nodes = nodeSetValue(@, node, arg_index, value)], path),
             raised |-> FALSE]

\* setValue(path, arg_index, value): raised tells whether node.setValue threw
serverSetValue(w, path, arg_index, value) ==
    LET node == _getNodeForPath(w.nodes, path)
    IN IF node = Null THEN [w |-> w, raised |-> FALSE]
       ELSE IF ~ValidIndex(w.nodes[node], arg_index) THEN [w |-> w, raised |-> TRUE]
       ELSE [w |-> NotifyPathChanged(
                     [w EXCEPT !.nodes = nodeSetValue(@, node, arg_index, value)], path),
             raised |-> FALSE]

\* unsetValue(path, arg_index)
serverUnsetValue(w, path, arg_index) ==
    LET node == _getNodeForPath(w.nodes, path)
    IN IF node = Null THEN [w |-> w, raised |-> FALSE]
       ELSE IF ~ValidIndex(w.nodes[node], arg_index) THEN [w |-> w, raised |-> TRUE]
       ELSE [w |-> NotifyPathChanged(
                     [w EXCEPT !.nodes = nodeUnsetValue(@, node, arg_index)], path),
             raised |-> FALSE]

\* for (i = 0; i < args.length; i++) try { node.setValue(i, args[i]) } catch { log }
RECURSIVE AssignArgs(_, _, _, _)
AssignArgs(h, node, args, i) ==
    IF i >= Len(args) THEN h
    ELSE AssignArgs(IF ValidIndex(h[node], i) THEN nodeSetValue(h, node, i, args[i + 1]) ELSE h,
                    node, args, i + 1)

\* the test for a writable node, had it let READONLY pass
NotWritableLax(access) ==
    access = None \/ access = Some(NO_VALUE)

\* the test that makes receiveOSCMessage drop a message for a resolved node
NotWritable(access) ==
    access = None \/ access = Some(NO_VALUE) \/ access = Some(READONLY)

\* receiveOSCMessage, had it not consulted this._opts.broadcast
receiveOSCMessageEcho(w, path, args) ==
    LET node == _getNodeForPath(w.nodes, path)
    IN IF node = Null THEN w
       ELSE IF NotWritable(SerializedAccess(w.nodes[node])) THEN w
       ELSE LET w1 == [w EXCEPT !.nodes = AssignArgs(@, node, args, 0)]
            IN IF hubState # "null"
               THEN [broadcastOSCMessage(w1, path, args) EXCEPT
                       !.bcast = Append(@, [kind |-> "OSC", path |-> path])]
               ELSE w1

receiveOSCMessage(w, path, args) ==
    LET node == _getNodeForPath(w.nodes, path)
    IN IF node = Null THEN w
       ELSE IF NotWritable(SerializedAccess(w.nodes[node])) THEN w
       ELSE LET w1 == [w EXCEPT !.nodes = AssignArgs(@, node, args, 0)]
            IN IF broadcastOpt /\ hubState # "null"
               THEN [broadcastOSCMessage(w1, path, args) EXCEPT
                       !.bcast = Append(@, [kind |-> "OSC", path |-> path])]
               ELSE w1

\* the value slots of the node at path, as a broadcast call made now finds them
SlotsAt(h, path) ==
    IF _getNodeForPath(h, path) = Null THEN None
    ELSE Some(h[_getNodeForPath(h, path)].arguments)

\* if (this._wsServer) this._wsServer.broadcastOSCMessage(path, args)
NotifyOSC(w, path, args) ==
    IF hubState = "null" THEN w
    ELSE [broadcastOSCMessage(w, path, args) EXCEPT
            !.bcast = Append(@, [kind |-> "OSC", path |-> path,
                                 slots |-> SlotsAt(w.nodes, path)])]

\* the loop of sendValue over the arguments
SendValueAssign(w, path, args) ==
    LET node == _getNodeForPath(w.nodes, path)
    IN IF node # Null /\ Len(args) > 0
       THEN [w EXCEPT !.nodes = AssignArgs(@, node, args, 0)]
       ELSE w

\* sendValue, had it broadcast before it updated the node
sendValueBroadcastFirst(w, path, args) ==
    SendValueAssign(NotifyOSC(w, path, args), path, args)

\* sendValue, had it returned early for a path without a node
sendValueResolvedOnly(w, path, args) ==
    IF _getNodeForPath(w.nodes, path) = Null THEN w
    ELSE NotifyOSC(SendValueAssign(w, path, args), path, args)

\* sendValue(path, ...args)
sendValue(w, path, args) ==
    NotifyOSC(SendValueAssign(w, path, args), path, args)

\* the attributes a query string may name
VALID_ATTRIBUTES ==
    {"FULL_PATH", "CONTENTS", "TYPE", "ACCESS", "RANGE", "DESCRIPTION", "TAGS",
     "CRITICAL", "CLIPMODE", "VALUE", "HOST_INFO"}

\* _handleGet with the walk of the path put before the HOST_INFO branch
_handleGetWalkFirst(h, pathname, query) ==
    LET node == Walk(h, RootId, Split(pathname))
    IN IF query # Undefined /\ query \notin VALID_ATTRIBUTES THEN 400
       ELSE IF node = Null THEN 404
       ELSE IF query = "HOST_INFO" THEN 200
       ELSE IF query = Undefined THEN 200
       ELSE IF /\ SerializedAccess(h[node]) # None
               /\ SerializedAccess(h[node]) \in {Some(0), Some(2)}
               /\ query = "VALUE"
            THEN 204
       ELSE 200

\* _handleGet with the 204 answer given to NO_VALUE nodes only
_handleGetNoValueOnly(h, pathname, query) ==
    LET node == Walk(h, RootId, Split(pathname))
    IN IF query # Undefined /\ query \notin VALID_ATTRIBUTES THEN 400
       ELSE IF query = "HOST_INFO" THEN 200
       ELSE IF node = Null THEN 404
       ELSE IF query = Undefined THEN 200
       ELSE IF /\ SerializedAccess(h[node]) # None
               /\ SerializedAccess(h[node]) \in {Some(0)}
               /\ query = "VALUE"
            THEN 204
       ELSE 200

\* the status code _handleGet answers with; query is Undefined when url.search is empty
_handleGet(h, pathname, query) ==
    LET node == Walk(h, RootId, Split(pathname))
    IN IF query # Undefined /\ query \notin VALID_ATTRIBUTES THEN 400
       ELSE IF query = "HOST_INFO" THEN 200
       ELSE IF node = Null THEN 404
       ELSE IF query = Undefined THEN 200
       ELSE IF /\ SerializedAccess(h[node]) # None
               /\ SerializedAccess(h[node]) \in {Some(0), Some(2)}
               /\ query = "VALUE"
            THEN 204
       ELSE 200

\* OSCQueryWebSocketServer.isRunning(): _wsServer !== null.  The hub's
\* _wsServer is set by start() as soon as the WebSocketServer is constructed
\* ("binding"), stays set when its "error" event rejects start() ("failed"),
\* and is reset by stop() only, in the callback of _wsServer.close ("closing"
\* until then)
isRunning(hs) == hs \in {"binding", "running", "failed", "closing"}

\* the extensions every HOST_INFO document carries
STATIC_EXTENSIONS ==
    {"ACCESS", "VALUE", "RANGE", "DESCRIPTION", "TAGS", "CRITICAL", "CLIPMODE"}

\* the keys of EXTENSIONS in the HOST_INFO document; every key maps to true
HostInfoExtensions(hs) ==
    STATIC_EXTENSIONS \cup
        (IF hs # "null" /\ isRunning(hs) THEN {"LISTEN", "PATH_CHANGED"} ELSE {})

\* an argument carries the member f
ArgHas(arg, f) == f \in DOMAIN arg /\ arg[f] # Undefined

\* serialize() emits the arrays VALUE, RANGE and CLIPMODE
EmitsArrays(n) ==
    /\ n.arguments # None
    /\ \E i \in 1..Len(n.arguments[1]) :
          \E f \in {"value", "range", "clipmode"} : ArgHas(n.arguments[1][i], f)

\* the keys of the object serialize() returns
SerializedKeys(n) ==
    {"FULL_PATH"}
        \cup (IF DOMAIN n.children # {} THEN {"CONTENTS"} ELSE {})
        \cup (IF n.arguments # None THEN {"TYPE"} ELSE {})
        \cup (IF SerializedAccess(n) # None THEN {"ACCESS"} ELSE {})
        \cup (IF EmitsArrays(n) THEN {"VALUE", "RANGE", "CLIPMODE"} ELSE {})
        \cup (IF n.description # Undefined THEN {"DESCRIPTION"} ELSE {})
        \cup (IF n.tags # None THEN {"TAGS"} ELSE {})
        \cup (IF n.critical # None THEN {"CRITICAL"} ELSE {})

\* JSON.stringify of an object: a member whose value is undefined is left out
StringifiedKeys(keys, present) == keys \cap present

\* the body _handleGet writes: None when it ends the response without one,
\* else the document and the keys of the JSON object written
_handleGetBody(h, hs, pathname, query) ==
    LET node == Walk(h, RootId, Split(pathname))
    IN IF query # Undefined /\ query \notin VALID_ATTRIBUTES THEN None
       ELSE IF query = "HOST_INFO"
            THEN Some([doc |-> "HOST_INFO", keys |-> HostInfoExtensions(hs)])
       ELSE IF node = Null THEN None
       ELSE IF query = Undefined
            THEN Some([doc |-> "node", keys |-> SerializedKeys(h[node])])
       ELSE IF /\ SerializedAccess(h[node]) # None
               /\ SerializedAccess(h[node]) \in {Some(0), Some(2)}
               /\ query = "VALUE"
            THEN None
       ELSE Some([doc |-> "attribute",
                  keys |-> StringifiedKeys({query}, SerializedKeys(h[node]))])

\* _httpHandler(req, res): the status code and the body of the answer
_httpHandler(h, hs, method, pathname, query) ==
    IF method = "OPTIONS" THEN [status |-> 204, body |-> None]
    ELSE IF method # "GET" THEN [status |-> 400, body |-> None]
    ELSE [status |-> _handleGet(h, pathname, query),
          body   |-> _handleGetBody(h, hs, pathname, query)]

-----------------------------------------------------------------------------
(* The OSC codec of the hub.  A buffer is a sequence of bytes; offsets count *)
(* from 0 as in the code.  A JavaScript value is a record: t is its type, n  *)
(* holds twice the number (so that 3.5 is 7) or the truth value of a         *)
(* boolean, s the characters of a string, b the bytes of a Buffer.           *)

Num(twice) == [t |-> "number", n |-> twice, s |-> <<>>, b |-> <<>>]
\* a number whose double would not fit the model's integers: twice / 2
\* times 2^shift, with shift >= 1
NumScaled(twice, shift) == [t |-> "number", n |-> twice, s |-> <<>>, b |-> <<shift>>]
Str(chars) == [t |-> "string", n |-> 0, s |-> chars, b |-> <<>>]
Bool(x) == [t |-> "boolean", n |-> IF x THEN 1 ELSE 0, s |-> <<>>, b |-> <<>>]
JsNull == [t |-> "null", n |-> 0, s |-> <<>>, b |-> <<>>]
Blob(bytes) == [t |-> "blob", n |-> 0, s |-> <<>>, b |-> bytes]
\* a float32 that is not a multiple of one half below 2^30: its four bytes
Float32(bytes) == [t |-> "float32", n |-> 0, s |-> <<>>, b |-> bytes]

\* the characters of the messages and of the type tags, with their codes
Alphabet == {"/", ",", "a", "b", "c", "r", "x", "i", "f", "s", "S", "T", "F", "N"}

CharCode(c) ==
    CASE c = "/" -> 47 [] c = "," -> 44 [] c = "a" -> 97 [] c = "b" -> 98
      [] c = "c" -> 99 [] c = "r" -> 114 [] c = "x" -> 120 [] c = "i" -> 105
      [] c = "f" -> 102 [] c = "s" -> 115 [] c = "S" -> 83 [] c = "T" -> 84
      [] c = "F" -> 70 [] c = "N" -> 78

\* the character of a byte; "?" for a byte outside the alphabet
CodeChar(byte) ==
    IF \E c \in Alphabet : CharCode(c) = byte
    THEN CHOOSE c \in Alphabet : CharCode(c) = byte
    ELSE "?"

\* Buffer.from(str, "utf8") for a string of the alphabet
Utf8(chars) == [i \in 1..Len(chars) |-> CharCode(chars[i])]

\* buffer.toString("utf8", start, end)
toStringUtf8(buffer, start, end) ==
    [i \in 1..(end - start) |-> CodeChar(buffer[start + i])]

\* Buffer.alloc(n)
Zeros(n) == [i \in 1..n |-> 0]

\* a buffer followed by (4 - (length % 4)) % 4 zero bytes
Padded(bytes) == bytes \o Zeros((4 - (Len(bytes) % 4)) % 4)

\* Math.ceil(n / 4) * 4
Align(n) == ((n + 3) \div 4) * 4

\* buffer.indexOf(0, from); -1 when there is no zero byte
RECURSIVE IndexOfZero(_, _)
IndexOfZero(buffer, from) ==
    IF from >= Len(buffer) THEN -1
    ELSE IF buffer[from + 1] = 0 THEN from
    ELSE IndexOfZero(buffer, from + 1)

\* the four bytes of a number below 2^31, most significant first
BigEndian(x) ==
    <<x \div 16777216, (x \div 65536) % 256, (x \div 256) % 256, x % 256>>

\* the binary shift of a number; 0 for the numbers built by Num
Shift(arg) == IF arg.b = <<>> THEN 0 ELSE arg.b[1]

\* Number.isInteger(arg)
IsInteger(arg) == arg.n % 2 = 0 \/ Shift(arg) >= 1

\* the range test of writeInt32BE: -2^31 <= arg <= 2^31 - 1; an integer
\* without a shift is within the model's integers, which are 32 bits wide
InInt32(arg) ==
    IF Shift(arg) <= 1 THEN TRUE
    ELSE IF arg.n >= 0 THEN arg.n <= 2147483647 \div 2^(Shift(arg) - 1)
    ELSE -arg.n <= 2^(32 - Shift(arg))

\* the value of an integer within the int32 range
IntValue(arg) ==
    IF Shift(arg) = 0 THEN arg.n \div 2 ELSE arg.n * 2^(Shift(arg) - 1)

\* the number value of an int32: the form Num when its double fits
Int32Num(x) ==
    IF x > -1073741824 /\ x < 1073741824 THEN Num(2 * x) ELSE NumScaled(x, 1)

\* buffer.writeInt32BE(x) for x within range: two's complement
writeInt32BE(x) ==
    IF x >= 0 THEN BigEndian(x)
    ELSE [i \in 1..4 |-> 255 - BigEndian(-(x + 1))[i]]

\* buffer.writeInt32BE(arg, 0) throws a RangeError for this argument
WriteInt32Raises(arg) ==
    arg.t = "number" /\ IsInteger(arg) /\ ~InInt32(arg)

\* buffer.readInt32BE(offset)
readInt32BE(buffer, offset) ==
    LET b == SubSeq(buffer, offset + 1, offset + 4)
    IN IF b[1] < 128
       THEN b[1] * 16777216 + b[2] * 65536 + b[3] * 256 + b[4]
       ELSE -((255 - b[1]) * 16777216 + (255 - b[2]) * 65536
                + (255 - b[3]) * 256 + (255 - b[4])) - 1

\* the position of the highest bit of a positive number
RECURSIVE HighBit(_)
HighBit(x) == IF x < 2 THEN 0 ELSE 1 + HighBit(x \div 2)

\* buffer.writeFloatBE(x) for x = twice / 2 with 0 < |twice| < 2^24: the
\* IEEE 754 single with sign, biased exponent and 23 bits of fraction
writeFloatBE(twice) ==
    LET sign == IF twice < 0 THEN 1 ELSE 0
        mag == IF twice < 0 THEN -twice ELSE twice
        p == HighBit(mag)
        biased == (p - 1) + 127
        frac == (mag - 2^p) * 2^(23 - p)
    IN <<sign * 128 + biased \div 2,
         (biased % 2) * 128 + frac \div 65536,
         (frac \div 256) % 256,
         frac % 256>>

\* buffer.readFloatBE(offset)
readFloatBE(buffer, offset) ==
    LET b == SubSeq(buffer, offset + 1, offset + 4)
        sign == b[1] \div 128
        biased == (b[1] % 128) * 2 + b[2] \div 128
        frac == (b[2] % 128) * 65536 + b[3] * 256 + b[4]
        mant == 8388608 + frac
        mag == IF biased >= 149 THEN mant * 2^(biased - 149)
               ELSE mant \div 2^(149 - biased)
    IN IF biased = 0 /\ frac = 0 THEN Num(0)
       ELSE IF /\ biased \in 126..155
               /\ (biased >= 149 \/ mant % 2^(149 - biased) = 0)
            THEN Num(IF sign = 1 THEN -mag ELSE mag)
       ELSE Float32(b)

\* what one argument adds to the type tag and to the argument buffers
EncodeArg(arg) ==
    CASE arg.t = "number" ->
            IF IsInteger(arg)
            THEN [tag |-> <<"i">>,
                  bytes |-> IF InInt32(arg) THEN writeInt32BE(IntValue(arg)) ELSE <<>>]
            ELSE [tag |-> <<"f">>, bytes |-> writeFloatBE(arg.n)]
      [] arg.t = "string" ->
            [tag |-> <<"s">>, bytes |-> Padded(Utf8(arg.s) \o <<0>>)]
      [] arg.t = "boolean" ->
            [tag |-> IF arg.n = 1 THEN <<"T">> ELSE <<"F">>, bytes |-> <<>>]
      [] arg.t = "null" -> [tag |-> <<"N">>, bytes |-> <<>>]
      [] arg.t = "blob" ->
            [tag |-> <<"b">>, bytes |-> BigEndian(Len(arg.b)) \o Padded(arg.b)]
      [] OTHER -> [tag |-> <<>>, bytes |-> <<>>]

\* the type tag of an argument list, without its comma
RECURSIVE TypeTag(_)
TypeTag(args) ==
    IF args = <<>> THEN <<>> ELSE EncodeArg(Head(args)).tag \o TypeTag(Tail(args))

\* the argument buffers of an argument list, concatenated
RECURSIVE ArgBuffers(_)
ArgBuffers(args) ==
    IF args = <<>> THEN <<>>
    ELSE EncodeArg(Head(args)).bytes \o ArgBuffers(Tail(args))

\* _encodeOSCMessage(path, args) does not return: writeInt32BE throws
EncodeRaises(args) == \E i \in 1..Len(args) : WriteInt32Raises(args[i])

\* _encodeOSCMessage(path, args), when it returns
_encodeOSCMessage(path, args) ==
    Padded(Utf8(path) \o <<0>>)
        \o Padded(Utf8(<<",">> \o TypeTag(args)) \o <<0>>)
        \o ArgBuffers(args)

Skipped(offset) == [value |-> None, offset |-> offset]
Read(value, offset) == [value |-> Some(value), offset |-> offset]

\* the switch of the decoder for one type tag at an offset: the value read,
\* None when the case leaves value undefined, and the offset afterwards.  The
\* tags the encoder never writes (h, t, d, c, r, m, I and the brackets) are
\* not modelled and fall under the default case
DecodeCase(buffer, type, offset) ==
    CASE type = "i" ->
            IF offset + 4 > Len(buffer) THEN Skipped(offset)
            ELSE Read(Int32Num(readInt32BE(buffer, offset)), offset + 4)
      [] type = "f" ->
            IF offset + 4 > Len(buffer) THEN Skipped(offset)
            ELSE Read(readFloatBE(buffer, offset), offset + 4)
      [] type \in {"s", "S"} ->
            LET strEnd == IndexOfZero(buffer, offset)
            IN IF strEnd = -1 THEN Skipped(offset)
               ELSE Read(Str(toStringUtf8(buffer, offset, strEnd)), Align(strEnd + 1))
      [] type = "b" ->
            IF offset + 4 > Len(buffer) THEN Skipped(offset)
            ELSE IF buffer[offset + 1] >= 128 THEN Skipped(offset + 4)
            ELSE LET blobSize == readInt32BE(buffer, offset)
                 IN IF offset + 4 + blobSize > Len(buffer) THEN Skipped(offset + 4)
                    ELSE Read(Blob(SubSeq(buffer, offset + 5, offset + 4 + blobSize)),
                              Align(offset + 4 + blobSize))
      [] type = "T" -> Read(Bool(TRUE), offset)
      [] type = "F" -> Read(Bool(FALSE), offset)
      [] type = "N" -> Read(JsNull, offset)
      [] OTHER -> Skipped(offset)

\* the argument loop with its condition turned into i < typeTag.length only
RECURSIVE DecodeArgsAllTags(_, _, _, _, _)
DecodeArgsAllTags(buffer, typeTag, i, offset, args) ==
    IF ~(i < Len(typeTag)) THEN args
    ELSE LET r == DecodeCase(buffer, typeTag[i + 1], offset)
         IN DecodeArgsAllTags(buffer, typeTag, i + 1, r.offset,
                              IF r.value = None THEN args ELSE Append(args, r.value[1]))

\* for (i = 0; i < typeTag.length && offset < buffer.length; i++) { ... }
RECURSIVE DecodeArgs(_, _, _, _, _)
DecodeArgs(buffer, typeTag, i, offset, args) ==
    IF ~(i < Len(typeTag) /\ offset < Len(buffer)) THEN args
    ELSE LET r == DecodeCase(buffer, typeTag[i + 1], offset)
         IN DecodeArgs(buffer, typeTag, i + 1, r.offset,
                       IF r.value = None THEN args ELSE Append(args, r.value[1]))

\* _decodeOSCMessage(buffer): Null, or the path and the arguments
_decodeOSCMessage(buffer) ==
    IF Len(buffer) < 4 THEN Null
    ELSE LET addressEnd == IndexOfZero(buffer, 0)
             path == toStringUtf8(buffer, 0, addressEnd)
             offset == Align(addressEnd + 1)
             typeTagEnd == IndexOfZero(buffer, offset)
         IN IF addressEnd = -1 THEN Null
            ELSE IF offset >= Len(buffer) THEN [path |-> path, args |-> <<>>]
            ELSE IF typeTagEnd = -1 \/ buffer[offset + 1] # 44
                 THEN [path |-> path, args |-> <<>>]
            ELSE [path |-> path,
                  args |-> DecodeArgs(buffer, toStringUtf8(buffer, offset + 1, typeTagEnd),
                                      0, Align(typeTagEnd + 1), <<>>)]

-----------------------------------------------------------------------------
(* Inputs *)

ArgInt == [type |-> "INT", value |-> Undefined]

Opts(description, access, arguments) ==
    [description |-> description, access |-> access, tags |-> None,
     critical |-> None, arguments |-> arguments]

\* the descriptions handed to addMethod
MethodDescs ==
    {EmptyOpts,
     Opts("d", None, None),
     Opts(Undefined, Some(NO_VALUE), None),
     Opts(Undefined, Some(READWRITE), Some(<<ArgInt>>))}

\* one description for each access an addMethod can declare
AccessDescs ==
    {Opts(Undefined, None, Some(<<ArgInt>>)),
     Opts(Undefined, Some(NO_VALUE), Some(<<ArgInt>>)),
     Opts(Undefined, Some(READONLY), Some(<<ArgInt>>)),
     Opts(Undefined, Some(WRITEONLY), Some(<<ArgInt>>)),
     Opts(Undefined, Some(READWRITE), Some(<<ArgInt>>))}

ArgLists == UNION {[1..n -> Values] : n \in 0..MaxArgs}

\* a JavaScript string in a condition: the empty string is falsy
Truthy(str) == str # <<>>

\* typeof message.DATA === "string" ? message.DATA : ""
DataPath(message) ==
    IF message.DATA.type = "string" THEN message.DATA.text ELSE <<>>

\* _handleWebSocketMessage with every command taken for LISTEN
_handleWebSocketMessageAnyCommand(subs, message) ==
    IF Truthy(DataPath(message)) THEN subs \cup {DataPath(message)} ELSE subs

\* _handleWebSocketMessage(client, message): the client's new subscription set
_handleWebSocketMessage(subs, message) ==
    CASE message.COMMAND = "LISTEN" ->
            IF Truthy(DataPath(message)) THEN subs \cup {DataPath(message)} ELSE subs
      [] message.COMMAND = "IGNORE" ->
            IF Truthy(DataPath(message)) THEN subs \ {DataPath(message)} ELSE subs
      [] OTHER -> subs

\* _handleMessage(client, data), the branch of a frame that does not start
\* with "/" or "#": JSON.parse in a try/catch, then _handleWebSocketMessage
_handleMessage(subs, frame) ==
    IF frame.json THEN _handleWebSocketMessage(subs, frame.message) ELSE subs

\* the DATA strings of LISTEN and IGNORE
SubInputs == {CanonicalPath(<<s>>) : s \in SegNames}

-----------------------------------------------------------------------------
(* The state machine *)

NoFrames == [c \in Clients |-> <<>>]

World == [nodes |-> nodes, clients |-> wsClients, sent |-> NoFrames, bcast |-> <<>>]

Commit(w, op) ==
    /\ nodes' = w.nodes
    /\ wsClients' = w.clients
    /\ sent' = w.sent
    /\ bcast' = w.bcast
    /\ inbound' = None
    /\ lastOp' = op
    /\ response' = None
    /\ UNCHANGED <<codec, life, disc, parse, call>>

\* new OSCQueryServer(opts)
Init ==
    /\ nodes = [id \in {RootId} |->
                  [NewNode(RootName, Null) EXCEPT
                     !.description = "root node", !.access = Some(NO_VALUE)]]
    /\ broadcastOpt \in BOOLEAN
    /\ hubState = "null"
    /\ wsClients = {}
    /\ sock = [c \in Clients |-> "NONE"]
    /\ subscribedPaths = [c \in Clients |-> {}]
    /\ sent = NoFrames
    /\ bcast = <<>>
    /\ inbound = None
    /\ lastOp = "init"
    /\ response = None
    /\ call = None
    /\ life = None
    /\ disc = None
    /\ parse = None
    /\ codec = None

AddMethod(path, params) ==
    /\ Commit(addMethod(World, path, params), "addMethod")
    /\ UNCHANGED <<broadcastOpt, hubState, sock, subscribedPaths>>

RemoveMethod(path) ==
    /\ Commit(removeMethod(World, path), "removeMethod")
    /\ UNCHANGED <<broadcastOpt, hubState, sock, subscribedPaths>>

SetValue(path, i, v) ==
    LET r == serverSetValue(World, path, i, v)
    IN /\ Commit(r.w, IF r.raised THEN "setValue raised" ELSE "setValue")
       /\ UNCHANGED <<broadcastOpt, hubState, sock, subscribedPaths>>

UnsetValue(path, i) ==
    LET r == serverUnsetValue(World, path, i)
    IN /\ Commit(r.w, IF r.raised THEN "unsetValue raised" ELSE "unsetValue")
       /\ UNCHANGED <<broadcastOpt, hubState, sock, subscribedPaths>>

SendValue(path, args) ==
    /\ Commit(sendValue(World, path, args), "sendValue")
    /\ UNCHANGED <<broadcastOpt, hubState, sock, subscribedPaths>>

\* where inbound OSC can come from: the UDP listener, which start() binds once
\* the hub is built, or a binary frame of a connected WebSocket client
CanReceiveFrom(from) ==
    IF from = "udp" THEN hubState # "null" ELSE sock[from] \in {"OPEN", "BROKEN"}

\* the "message" handler of the OSC server and the hub's _onOSCMessage hook
ReceiveOSCMessage(from, path, args) ==
    LET w == receiveOSCMessage(World, path, args)
    IN /\ CanReceiveFrom(from)
       /\ nodes' = w.nodes
       /\ wsClients' = w.clients
       /\ sent' = w.sent
       /\ bcast' = w.bcast
       /\ inbound' = Some([from |-> from, path |-> path, args |-> args])
       /\ lastOp' = "receiveOSCMessage"
       /\ response' = None
       /\ UNCHANGED <<codec, life, disc, parse, call>>
       /\ UNCHANGED <<broadcastOpt, hubState, sock, subscribedPaths>>

Quiet(op) ==
    /\ sent' = NoFrames
    /\ bcast' = <<>>
    /\ inbound' = None
    /\ lastOp' = op
    /\ response' = None
    /\ UNCHANGED <<codec, life, disc, parse, call>>

\* start(): the hub is constructed
StartCreateHub ==
    /\ hubState = "null"
    /\ hubState' = "created"
    /\ Quiet("start")
    /\ UNCHANGED <<nodes, broadcastOpt, wsClients, sock, subscribedPaths>>

\* start(): OSCQueryWebSocketServer.start() has built the WebSocketServer
StartHub ==
    /\ hubState = "created"
    /\ hubState' = "running"
    /\ Quiet("hubStart")
    /\ UNCHANGED <<nodes, broadcastOpt, wsClients, sock, subscribedPaths>>

\* stop(): client sockets closed, the registry cleared, _wsServer set to null
Stop ==
    /\ hubState = "running"
    /\ hubState' = "null"
    /\ wsClients' = {}
    /\ sock' = [c \in Clients |-> "NONE"]
    /\ subscribedPaths' = [c \in Clients |-> {}]
    /\ Quiet("stop")
    /\ UNCHANGED <<nodes, broadcastOpt>>

\* _handleWebSocketConnection(ws)
Connect(c) ==
    /\ hubState = "running"
    /\ sock[c] = "NONE"
    /\ sock' = [sock EXCEPT ![c] = "OPEN"]
    /\ subscribedPaths' = [subscribedPaths EXCEPT ![c] = {}]
    /\ wsClients' = wsClients \cup {c}
    /\ Quiet("connect")
    /\ UNCHANGED <<nodes, broadcastOpt, hubState>>

\* the "close" and "error" handlers, had they left the client in the registry
DisconnectKeep(c) ==
    /\ sock[c] # "NONE"
    /\ sock' = [sock EXCEPT ![c] = "NONE"]
    /\ subscribedPaths' = [subscribedPaths EXCEPT ![c] = {}]
    /\ Quiet("disconnect")
    /\ UNCHANGED <<nodes, broadcastOpt, hubState, wsClients>>

\* the "close" and "error" handlers of a connection
Disconnect(c) ==
    /\ sock[c] # "NONE"
    /\ sock' = [sock EXCEPT ![c] = "NONE"]
    /\ subscribedPaths' = [subscribedPaths EXCEPT ![c] = {}]
    /\ wsClients' = wsClients \ {c}
    /\ Quiet("disconnect")
    /\ UNCHANGED <<nodes, broadcastOpt, hubState>>

\* the socket leaves the OPEN state before its close event is delivered
SocketCloses(c) ==
    /\ sock[c] \in {"OPEN", "BROKEN"}
    /\ sock' = [sock EXCEPT ![c] = "CLOSED"]
    /\ Quiet("socketCloses")
    /\ UNCHANGED <<nodes, broadcastOpt, hubState, wsClients, subscribedPaths>>

\* the socket gets into a condition in which send raises
SocketBreaks(c) ==
    /\ sock[c] = "OPEN"
    /\ sock' = [sock EXCEPT ![c] = "BROKEN"]
    /\ Quiet("socketBreaks")
    /\ UNCHANGED <<nodes, broadcastOpt, hubState, wsClients, subscribedPaths>>

\* _handleWebSocketMessage, case "LISTEN", DATA a non-empty string
Listen(c, data) ==
    /\ sock[c] \in {"OPEN", "BROKEN"}
    /\ subscribedPaths' = [subscribedPaths EXCEPT ![c] = @ \cup {data}]
    /\ Quiet("LISTEN")
    /\ UNCHANGED <<nodes, broadcastOpt, hubState, wsClients, sock>>

\* _handleWebSocketMessage, case "IGNORE", DATA a non-empty string
Ignore(c, data) ==
    /\ sock[c] \in {"OPEN", "BROKEN"}
    /\ subscribedPaths' = [subscribedPaths EXCEPT ![c] = @ \ {data}]
    /\ Quiet("IGNORE")
    /\ UNCHANGED <<nodes, broadcastOpt, hubState, wsClients, sock>>

\* ws.on("message") for a text frame of client c
HandleMessage(c, frame) ==
    /\ sock[c] \in {"OPEN", "BROKEN"}
    /\ subscribedPaths' =
          [subscribedPaths EXCEPT ![c] = _handleMessage(@, frame)]
    /\ sent' = NoFrames
    /\ bcast' = <<>>
    /\ inbound' = Some([from |-> c, frame |-> frame])
    /\ lastOp' = "message"
    /\ response' = None
    /\ UNCHANGED <<codec, life, disc, parse, call>>
    /\ UNCHANGED <<nodes, broadcastOpt, hubState, wsClients, sock>>

\* start() with the hub on a port of its own: the hub is constructed and its
\* start() builds the WebSocketServer, which begins to bind
StartStandalone ==
    /\ hubState = "null"
    /\ hubState' = "binding"
    /\ Quiet("start")
    /\ UNCHANGED <<nodes, broadcastOpt, wsClients, sock, subscribedPaths>>

\* the "listening" event of the standalone WebSocketServer
HubListening ==
    /\ hubState = "binding"
    /\ hubState' = "running"
    /\ Quiet("hubStart")
    /\ UNCHANGED <<nodes, broadcastOpt, wsClients, sock, subscribedPaths>>

\* the "error" event of the standalone WebSocketServer: start() is rejected
HubError ==
    /\ hubState = "binding"
    /\ hubState' = "failed"
    /\ Quiet("hubError")
    /\ UNCHANGED <<nodes, broadcastOpt, wsClients, sock, subscribedPaths>>

\* stop() of a server whose hub is not accepting connections
StopIdle ==
    /\ hubState \in {"created", "binding", "failed"}
    /\ hubState' = "null"
    /\ Quiet("stop")
    /\ UNCHANGED <<nodes, broadcastOpt, wsClients, sock, subscribedPaths>>

\* _httpHandler answers one request; the tree and the hub are only read
HttpRequest(method, pathname, query) ==
    /\ response' = Some([method |-> method, pathname |-> pathname, query |-> query,
                         answer |-> _httpHandler(nodes, hubState, method, pathname, query)])
    /\ sent' = NoFrames
    /\ bcast' = <<>>
    /\ inbound' = None
    /\ lastOp' = "http"
    /\ UNCHANGED <<codec, life, disc, parse, call>>
    /\ UNCHANGED <<nodes, broadcastOpt, hubState, wsClients, sock, subscribedPaths>>

\* the hub encodes the message it is about to broadcast; the call either
\* returns the buffer or throws
Encode ==
    /\ codec # None
    /\ codec[1].buffer = None
    /\ IF EncodeRaises(codec[1].args)
       THEN codec' = codec /\ lastOp' = "encode raised"
       ELSE /\ codec' = Some([codec[1] EXCEPT
                   !.buffer = Some(_encodeOSCMessage(codec[1].path, codec[1].args))])
            /\ lastOp' = "encode"
    /\ sent' = NoFrames
    /\ bcast' = <<>>
    /\ inbound' = None
    /\ response' = None
    /\ UNCHANGED <<life, disc, parse, call>>
    /\ UNCHANGED <<nodes, broadcastOpt, hubState, wsClients, sock, subscribedPaths>>

\* the encoded buffer comes back as a binary frame and is decoded
Decode ==
    /\ codec # None
    /\ codec[1].buffer # None
    /\ codec[1].decoded = None
    /\ codec' = Some([codec[1] EXCEPT
                        !.decoded = Some(_decodeOSCMessage(codec[1].buffer[1]))])
    /\ sent' = NoFrames
    /\ bcast' = <<>>
    /\ inbound' = None
    /\ lastOp' = "decode"
    /\ response' = None
    /\ UNCHANGED <<life, disc, parse, call>>
    /\ UNCHANGED <<nodes, broadcastOpt, hubState, wsClients, sock, subscribedPaths>>

\* the encoded buffer loses its last cut bytes on the way (a truncated
\* datagram or frame); only bytes of the argument section are lost
Truncate(cut) ==
    /\ codec # None
    /\ codec[1].buffer # None
    /\ codec[1].decoded = None
    /\ codec[1].cut = 0
    /\ cut \in 1..Len(ArgBuffers(codec[1].args))
    /\ codec' = Some([codec[1] EXCEPT
                        !.buffer = Some(SubSeq(@[1], 1, Len(@[1]) - cut)),
                        !.cut = cut])
    /\ sent' = NoFrames
    /\ bcast' = <<>>
    /\ inbound' = None
    /\ lastOp' = "truncate"
    /\ response' = None
    /\ UNCHANGED <<life, disc, parse, call>>
    /\ UNCHANGED <<nodes, broadcastOpt, hubState, wsClients, sock, subscribedPaths>>

\* a step of start() or stop() that changes the listeners and promises only
LifeStep(op, newLife) ==
    /\ life' = newLife
    /\ sent' = NoFrames
    /\ bcast' = <<>>
    /\ inbound' = None
    /\ lastOp' = op
    /\ response' = None
    /\ UNCHANGED <<codec, disc, parse, nodes, broadcastOpt, call>>

\* start() up to its await: the hub is constructed (and started at once when
\* it has a port of its own), the HTTP server is told to listen, the OSC
\* server is created when the transport is UDP, the mDNS service advertised
StartCall ==
    /\ life.startP = "none"
    /\ hubState = "null"
    /\ hubState' = IF life.mode = "attached" THEN "created" ELSE "binding"
    /\ LifeStep("start",
                [life EXCEPT !.http = "binding",
                             !.osc = IF life.udp THEN "binding" ELSE "idle",
                             !.mdns = "advertising",
                             !.startP = "pending"])
    /\ UNCHANGED <<wsClients, sock, subscribedPaths>>

\* the callback of this._server.listen: httpListenPromise resolves
HttpListening ==
    /\ life.http = "binding"
    /\ LifeStep("httpListening", [life EXCEPT !.http = "listening"])
    /\ UNCHANGED <<hubState, wsClients, sock, subscribedPaths>>

\* the HTTP server cannot bind: it emits "error", for which nothing listens,
\* and httpListenPromise, which has no reject, stays pending
HttpBindError ==
    /\ life.http = "binding"
    /\ LifeStep("httpError", [life EXCEPT !.http = "failed", !.uncaught = TRUE])
    /\ UNCHANGED <<hubState, wsClients, sock, subscribedPaths>>

\* attached mode: await httpListenPromise; await this._wsServer.start()
HubStartAttached ==
    /\ life.http = "listening"
    /\ StartHub

\* the callback of new OSCServer(port, ip, cb): oscListenPromise resolves
OscBound ==
    /\ life.osc = "binding"
    /\ LifeStep("oscBound", [life EXCEPT !.osc = "bound"])
    /\ UNCHANGED <<hubState, wsClients, sock, subscribedPaths>>

\* the OSC server cannot bind: its "error" handler logs, and oscListenPromise,
\* which has no reject, stays pending
OscBindError ==
    /\ life.osc = "binding"
    /\ LifeStep("oscError", [life EXCEPT !.osc = "failed"])
    /\ UNCHANGED <<hubState, wsClients, sock, subscribedPaths>>

\* this._mdnsService.advertise() resolves
MdnsAdvertised ==
    /\ life.mdns = "advertising"
    /\ LifeStep("mdnsAdvertised", [life EXCEPT !.mdns = "advertised"])
    /\ UNCHANGED <<hubState, wsClients, sock, subscribedPaths>>

\* this._mdnsService.advertise() rejects
MdnsFailed ==
    /\ life.mdns = "advertising"
    /\ LifeStep("mdnsFailed", [life EXCEPT !.mdns = "failed"])
    /\ UNCHANGED <<hubState, wsClients, sock, subscribedPaths>>

\* Promise.all without the OSC listener among the promises
StartResolvesWithoutOsc ==
    /\ life.startP = "pending"
    /\ life.http = "listening"
    /\ hubState = "running"
    /\ life.mdns = "advertised"
    /\ LifeStep("started", [life EXCEPT !.startP = "resolved"])
    /\ UNCHANGED <<hubState, wsClients, sock, subscribedPaths>>

\* await Promise.all([httpListenPromise, wsListenPromise, oscListenPromise,
\* advertise()]) is fulfilled (without oscListenPromise when not UDP)
StartResolves ==
    /\ life.startP = "pending"
    /\ life.http = "listening"
    /\ hubState = "running"
    /\ life.udp => life.osc = "bound"
    /\ life.mdns = "advertised"
    /\ LifeStep("started", [life EXCEPT !.startP = "resolved"])
    /\ UNCHANGED <<hubState, wsClients, sock, subscribedPaths>>

\* Promise.all is rejected: by wsListenPromise or by advertise(), the two
\* promises that can reject
StartRejects ==
    /\ life.startP = "pending"
    /\ hubState = "failed" \/ life.mdns = "failed"
    /\ LifeStep("startRejected", [life EXCEPT !.startP = "rejected"])
    /\ UNCHANGED <<hubState, wsClients, sock, subscribedPaths>>

\* stop() up to its await, with the registry left as it was
StopCallKeepClients ==
    /\ life.startP = "resolved"
    /\ life.stopP = "none"
    /\ hubState' = "closing"
    /\ sock' = [c \in Clients |-> IF c \in wsClients THEN "CLOSING" ELSE sock[c]]
    /\ subscribedPaths' = [c \in Clients |-> {}]
    /\ LifeStep("stop",
                [life EXCEPT !.http = "closing",
                             !.osc = IF life.udp THEN "closing" ELSE "idle",
                             !.mdns = "ending",
                             !.stopP = "pending"])
    /\ UNCHANGED wsClients

\* stop() up to its await: this._server.close, the hub's stop() (ws.close()
\* on every client, the registry cleared, _wsServer.close), the OSC server's
\* close and the mDNS service's end are all called
StopCall ==
    /\ life.startP = "resolved"
    /\ life.stopP = "none"
    /\ hubState' = "closing"
    /\ sock' = [c \in Clients |-> IF c \in wsClients THEN "CLOSING" ELSE sock[c]]
    /\ wsClients' = {}
    /\ subscribedPaths' = [c \in Clients |-> {}]
    /\ LifeStep("stop",
                [life EXCEPT !.http = "closing",
                             !.osc = IF life.udp THEN "closing" ELSE "idle",
                             !.mdns = "ending",
                             !.stopP = "pending"])

\* the peer of a socket that ws.close() is closing never answers: the timer
\* that ws.close() starts for the closing handshake destroys the socket
CloseTimerFires(c) ==
    /\ sock[c] = "CLOSING"
    /\ sock' = [sock EXCEPT ![c] = "NONE"]
    /\ LifeStep("closeTimer", [life EXCEPT !.destroyed = @ \cup {c}])
    /\ UNCHANGED <<hubState, wsClients, subscribedPaths>>

\* the callback of the hub's _wsServer.close: a server with a port of its
\* own has closed once its connections have ended
HubClosed ==
    /\ hubState = "closing"
    /\ life.mode = "standalone" => \A c \in Clients : sock[c] = "NONE"
    /\ hubState' = "null"
    /\ LifeStep("hubClosed", life)
    /\ UNCHANGED <<wsClients, sock, subscribedPaths>>

\* the callback of this._server.close: the HTTP server has closed once its
\* connections, the upgraded ones of an attached hub included, have ended
HttpClosed ==
    /\ life.http = "closing"
    /\ life.mode = "attached" => \A c \in Clients : sock[c] = "NONE"
    /\ LifeStep("httpClosed", [life EXCEPT !.http = "closed"])
    /\ UNCHANGED <<hubState, wsClients, sock, subscribedPaths>>

\* the callback of this._oscServer.close
OscClosed ==
    /\ life.osc = "closing"
    /\ LifeStep("oscClosed", [life EXCEPT !.osc = "closed"])
    /\ UNCHANGED <<hubState, wsClients, sock, subscribedPaths>>

\* this._mdnsService.end() resolves
MdnsEnded ==
    /\ life.mdns = "ending"
    /\ LifeStep("mdnsEnded", [life EXCEPT !.mdns = "ended"])
    /\ UNCHANGED <<hubState, wsClients, sock, subscribedPaths>>

\* await Promise.all([httpEndPromise, wsEndPromise, oscEndPromise, end()])
StopResolves ==
    /\ life.stopP = "pending"
    /\ life.http = "closed"
    /\ hubState = "null"
    /\ life.osc \in {"closed", "idle"}
    /\ life.mdns = "ended"
    /\ LifeStep("stopped", [life EXCEPT !.stopP = "resolved"])
    /\ UNCHANGED <<hubState, wsClients, sock, subscribedPaths>>

-----------------------------------------------------------------------------
(* mDNS discovery (MDNSDiscovery) and the OSCQuery discovery client         *)
(* (OSCQueryDiscovery, DiscoveredService).  disc is a record:               *)
(*   running      the discovery is started (_mdnsDiscovery, _mdns not null) *)
(*   mdns         MDNSDiscovery._services: the tracked service infos, each  *)
(*                with the key it is stored under                           *)
(*   services     OSCQueryDiscovery._services, an array of                  *)
(*                DiscoveredService objects                                 *)
(*   fetches      the calls of queryNewService that wait for a response     *)
(*   mdnsEmitted  the events MDNSDiscovery emitted in the last step         *)
(*   emitted      the events OSCQueryDiscovery emitted in the last step     *)
(*   live         the keys MDNSDiscovery reported up and not yet down in    *)
(*                the running session (kept from the events only)           *)
(*   downed       the keys whose last report by MDNSDiscovery was "down"    *)
(*                (kept from the events only)                               *)
(*   call         the argument of the last step                             *)

\* isIPv4(address): the address holds no colon
isIPv4(address) == \A i \in 1..Len(address) : address[i] # ":"

\* a port number written in decimal, as the template literal writes it
RECURSIVE PortString(_)
PortString(port) ==
    LET digit == <<"0", "1", "2", "3", "4", "5", "6", "7", "8", "9">>
    IN  IF port < 10 THEN <<digit[port + 1]>>
        ELSE PortString(port \div 10) \o <<digit[(port % 10) + 1]>>

\* `${address}:${port}`
_getServiceKey(address, port) == address \o <<":">> \o PortString(port)

\* the DiscoveredMDNSService built for one address of a service
ServiceInfo(address, port) ==
    [key |-> _getServiceKey(address, port), address |-> address, port |-> port]

Event(ev, service) == [ev |-> ev, service |-> service]

\* MDNSDiscovery._handleUp without the test for a key already tracked
RECURSIVE MdnsUpEach(_, _, _, _, _)
MdnsUpEach(services, emitted, addresses, port, i) ==
    IF i > Len(addresses)
    THEN [services |-> services, emitted |-> emitted]
    ELSE LET serviceInfo == ServiceInfo(addresses[i], port)
         IN  MdnsUpEach({s \in services : s.key # serviceInfo.key}
                             \cup {serviceInfo},
                        Append(emitted, Event("up", serviceInfo)),
                        addresses, port, i + 1)

MDNSDiscovery_handleUpAlways(services, service) ==
    IF service.protocol # "tcp" \/ service.addresses = None
    THEN [services |-> services, emitted |-> <<>>]
    ELSE MdnsUpEach(services, <<>>, service.addresses[1], service.port, 1)

\* MDNSDiscovery._handleUp: the forEach over service.addresses
RECURSIVE MdnsUpLoop(_, _, _, _, _)
MdnsUpLoop(services, emitted, addresses, port, i) ==
    IF i > Len(addresses)
    THEN [services |-> services, emitted |-> emitted]
    ELSE LET serviceInfo == ServiceInfo(addresses[i], port)
         IN  IF \E s \in services : s.key = serviceInfo.key
             THEN MdnsUpLoop(services, emitted, addresses, port, i + 1)
             ELSE MdnsUpLoop(services \cup {serviceInfo},
                             Append(emitted, Event("up", serviceInfo)),
                             addresses, port, i + 1)

\* MDNSDiscovery._handleUp(service): services of another protocol and
\* services without addresses are passed over
MDNSDiscovery_handleUp(services, service) ==
    IF service.protocol # "tcp" \/ service.addresses = None
    THEN [services |-> services, emitted |-> <<>>]
    ELSE MdnsUpLoop(services, <<>>, service.addresses[1], service.port, 1)

\* MDNSDiscovery._handleDown without the delete
RECURSIVE MdnsDownKeep(_, _, _, _, _)
MdnsDownKeep(services, emitted, addresses, port, i) ==
    IF i > Len(addresses)
    THEN [services |-> services, emitted |-> emitted]
    ELSE LET key == _getServiceKey(addresses[i], port)
             tracked == {s \in services : s.key = key}
         IN  IF tracked # {}
             THEN MdnsDownKeep(services,
                               Append(emitted,
                                      Event("down", CHOOSE s \in tracked : TRUE)),
                               addresses, port, i + 1)
             ELSE MdnsDownKeep(services, emitted, addresses, port, i + 1)

MDNSDiscovery_handleDownKeep(services, service) ==
    IF service.addresses = None
    THEN [services |-> services, emitted |-> <<>>]
    ELSE MdnsDownKeep(services, <<>>, service.addresses[1], service.port, 1)

\* MDNSDiscovery._handleDown: the forEach over service.addresses
RECURSIVE MdnsDownLoop(_, _, _, _, _)
MdnsDownLoop(services, emitted, addresses, port, i) ==
    IF i > Len(addresses)
    THEN [services |-> services, emitted |-> emitted]
    ELSE LET key == _getServiceKey(addresses[i], port)
             tracked == {s \in services : s.key = key}
         IN  IF tracked # {}
             THEN MdnsDownLoop(services \ tracked,
                               Append(emitted,
                                      Event("down", CHOOSE s \in tracked : TRUE)),
                               addresses, port, i + 1)
             ELSE MdnsDownLoop(services, emitted, addresses, port, i + 1)

\* MDNSDiscovery._handleDown(service)
MDNSDiscovery_handleDown(services, service) ==
    IF service.addresses = None
    THEN [services |-> services, emitted |-> <<>>]
    ELSE MdnsDownLoop(services, <<>>, service.addresses[1], service.port, 1)

\* the call of queryNewService(address, port) up to its first await: a
\* DiscoveredService is built and its update() sends the first request
Fetch(address, port) ==
    [address |-> address, port |-> port, stage |-> "base", base |-> "none"]

\* OSCQueryDiscovery._handleUp that queries every announced service
OSCQueryDiscovery_handleUpAnyAddress(d, mdnsService) ==
    [d EXCEPT !.fetches = Append(@, Fetch(mdnsService.address, mdnsService.port))]

\* OSCQueryDiscovery._handleUp(mdnsService)
OSCQueryDiscovery_handleUp(d, mdnsService) ==
    IF /\ mdnsService.address # <<>>
       /\ mdnsService.port # 0
       /\ isIPv4(mdnsService.address)
    THEN [d EXCEPT !.fetches =
                      Append(@, Fetch(mdnsService.address, mdnsService.port))]
    ELSE d

\* the elements of a sequence but the one at index i
RemoveAt(seq, i) == SubSeq(seq, 1, i - 1) \o SubSeq(seq, i + 1, Len(seq))

\* this._services.findIndex(s => s.address == address && s.port == port)
FindIndex(services, address, port) ==
    LET found == {i \in 1..Len(services) :
                     services[i].address = address /\ services[i].port = port}
    IN  IF found = {} THEN -1
        ELSE CHOOSE i \in found : \A j \in found : i <= j

\* OSCQueryDiscovery._handleDown(mdnsService)
OSCQueryDiscovery_handleDown(d, mdnsService) ==
    LET existingIndex ==
            FindIndex(d.services, mdnsService.address, mdnsService.port)
    IN  IF existingIndex > -1
        THEN [d EXCEPT
                !.emitted = Append(@, Event("down", d.services[existingIndex])),
                !.services = RemoveAt(@, existingIndex)]
        ELSE d

\* the listeners OSCQueryDiscovery.start() puts on the MDNSDiscovery, run on
\* each event it emitted; every service of the one browser is of type
\* "oscjson", so the type test of the "up" listener lets all of them through
RECURSIVE Forward(_, _, _)
Forward(d, events, i) ==
    IF i > Len(events) THEN d
    ELSE Forward(IF events[i].ev = "up"
                 THEN OSCQueryDiscovery_handleUp(d, events[i].service)
                 ELSE OSCQueryDiscovery_handleDown(d, events[i].service),
                 events, i + 1)

\* the keys of the events of one kind
EventKeys(events, ev) ==
    {events[i].service.key : i \in {j \in 1..Len(events) : events[j].ev = ev}}

\* a step of the discovery: the server side is left alone
DiscStep(op, newDisc) ==
    /\ disc' = newDisc
    /\ sent' = NoFrames
    /\ bcast' = <<>>
    /\ inbound' = None
    /\ lastOp' = op
    /\ response' = None
    /\ UNCHANGED <<codec, life, parse, nodes, broadcastOpt, call>>
    /\ UNCHANGED <<hubState, wsClients, sock, subscribedPaths>>

\* the most queries and tracked services the model follows at a time
MaxQueries == 2

\* OSCQueryDiscovery.start(): the MDNSDiscovery is built and started
DiscStart ==
    /\ ~disc.running
    /\ DiscStep("discovery start",
                [disc EXCEPT !.running = TRUE, !.mdnsEmitted = <<>>,
                             !.emitted = <<>>, !.call = None])

\* OSCQueryDiscovery.stop(): MDNSDiscovery.stop() stops the browsers and
\* clears its services; the queries under way and the tracked
\* DiscoveredServices are left as they are
DiscStop ==
    /\ disc.running
    /\ DiscStep("discovery stop",
                [disc EXCEPT !.running = FALSE, !.mdns = {}, !.live = {},
                             !.mdnsEmitted = <<>>, !.emitted = <<>>,
                             !.call = None])

\* what a handler of MDNSDiscovery and the listeners on its events leave
Handled(service, m) ==
    Forward([disc EXCEPT !.mdns = m.services,
                         !.mdnsEmitted = m.emitted,
                         !.emitted = <<>>,
                         !.live = (@ \cup EventKeys(m.emitted, "up"))
                                     \ EventKeys(m.emitted, "down"),
                         !.downed = (@ \cup EventKeys(m.emitted, "down"))
                                       \ EventKeys(m.emitted, "up"),
                         !.call = Some(service)],
            m.emitted, 1)

\* a browser reports a service: browser.on("up")
BrowserUp(service) ==
    /\ disc.running
    /\ LET d == Handled(service, MDNSDiscovery_handleUp(disc.mdns, service))
       IN  /\ Len(d.fetches) + Len(d.services) <= MaxQueries
           /\ DiscStep("browser up", d)

\* a browser reports the removal of a service: browser.on("down")
BrowserDown(service) ==
    /\ disc.running
    /\ DiscStep("browser down",
                Handled(service, MDNSDiscovery_handleDown(disc.mdns, service)))

\* the DiscoveredService of a query, with what update() has loaded
Discovered(fetch, hostInfo, tree) ==
    [address |-> fetch.address, port |-> fetch.port,
     hostInfo |-> hostInfo, nodes |-> tree]

\* a query with the answer it gets
Answer(fetch, data) == [fetch |-> fetch, data |-> data]

\* a query ends with a rejection: the catch of _handleUp emits "error"
QueryFails(i, data, hostInfo) ==
    DiscStep("query failed",
             [disc EXCEPT
                !.fetches = RemoveAt(@, i),
                !.mdnsEmitted = <<>>,
                !.emitted = <<Event("error",
                                    Discovered(disc.fetches[i], hostInfo,
                                               Undefined))>>,
                !.call = Some(Answer(disc.fetches[i], data))])

\* update(): the answer to GET baseUrl.  data is "rejected" when the request
\* fails, "tree" for a serialized node, "other" for a body that is none
BaseResponds(i, data) ==
    /\ i <= Len(disc.fetches)
    /\ disc.fetches[i].stage = "base"
    /\ IF data = "rejected"
       THEN QueryFails(i, data, Undefined)
       ELSE DiscStep("base fetched",
                     [disc EXCEPT !.fetches[i].stage = "hostInfo",
                                  !.fetches[i].base = data,
                                  !.mdnsEmitted = <<>>,
                                  !.emitted = <<>>,
                                  !.call = Some(Answer(disc.fetches[i], data))])

\* update(): the answer to GET baseUrl?HOST_INFO, the two deserializations,
\* and the rest of queryNewService.  deserializeHostInfo raises on a body
\* that is null, deserializeMethodNode on a body without FULL_PATH
HostInfoRespondsPushAlways(i, data) ==
    /\ i <= Len(disc.fetches)
    /\ disc.fetches[i].stage = "hostInfo"
    /\ LET service == Discovered(disc.fetches[i],
                                 IF data = "hostInfo" THEN "loaded"
                                 ELSE Undefined,
                                 IF disc.fetches[i].base = "tree" THEN "loaded"
                                 ELSE Undefined)
       IN  DiscStep("query done",
                    [disc EXCEPT
                       !.fetches = RemoveAt(@, i),
                       !.services = Append(@, service),
                       !.mdnsEmitted = <<>>,
                       !.emitted = <<Event("up", service)>>,
                       !.call = Some(Answer(disc.fetches[i], data))])

HostInfoResponds(i, data) ==
    /\ i <= Len(disc.fetches)
    /\ disc.fetches[i].stage = "hostInfo"
    /\ IF data = "rejected"
       THEN QueryFails(i, data, Undefined)
       ELSE IF data = "other"
       THEN QueryFails(i, data, Undefined)
       ELSE IF disc.fetches[i].base = "other"
       THEN QueryFails(i, data, "loaded")
       ELSE LET service == Discovered(disc.fetches[i], "loaded", "loaded")
            IN  DiscStep("query done",
                         [disc EXCEPT
                            !.fetches = RemoveAt(@, i),
                            !.services = Append(@, service),
                            !.mdnsEmitted = <<>>,
                            !.emitted = <<Event("up", service)>>,
                            !.call = Some(Answer(disc.fetches[i], data))])

-----------------------------------------------------------------------------
(* The OSC type string: its reconstruction by the server's serializer and   *)
(* parseTypeString of the discovery client.  An OSCType is a simple type    *)
(* or an array of OSCTypes; both are records, Simple(symbol) and            *)
(* ArrayOf(types).  parse is a record:                                      *)
(*   input   the value handed to the serializer (None when a text is        *)
(*           handed to the parser as it is)                                 *)
(*   text    the serialized form                                            *)
(*   output  what the parser returned                                       *)

Simple(symbol) == [t |-> symbol, of |-> <<>>]
ArrayOf(types) == [t |-> "array", of |-> types]

\* OSCTypeSimpleMap: the simple type of each tag character
OSCTypeSimpleMap ==
    [c \in {"i", "f", "s", "S", "b", "h", "t", "d", "c", "r", "m",
            "T", "F", "N", "I"} |->
        CASE c = "i" -> "INT"
          [] c = "f" -> "FLOAT"
          [] c = "s" -> "STRING"
          [] c = "S" -> "STRING"
          [] c = "b" -> "BLOB"
          [] c = "h" -> "INT64"
          [] c = "t" -> "TIMETAG"
          [] c = "d" -> "DOUBLE"
          [] c = "c" -> "CHAR"
          [] c = "r" -> "RGBA"
          [] c = "m" -> "MIDI"
          [] c = "T" -> "TRUE"
          [] c = "F" -> "FALSE"
          [] c = "N" -> "NIL"
          [] c = "I" -> "INFINITUM"]

\* the simple types
SimpleTypes == {OSCTypeSimpleMap[c] : c \in DOMAIN OSCTypeSimpleMap}

\* the tag of a simple type; "S" is an alias and is never written
SimpleTag(symbol) ==
    CHOOSE c \in DOMAIN OSCTypeSimpleMap \ {"S"} : OSCTypeSimpleMap[c] = symbol

\* TYPE reconstruction: the tag of a simple type, "[" ... "]" around the
\* reconstruction of a nested sequence
RECURSIVE getTypeString(_)
getTypeString(types) ==
    IF types = <<>> THEN <<>>
    ELSE LET type == Head(types)
         IN  (IF type.t = "array"
              THEN <<"[">> \o getTypeString(type.of) \o <<"]">>
              ELSE <<SimpleTag(type.t)>>)
             \o getTypeString(Tail(types))

\* a token of parseTypeString: a tag character, or (in an array of one
\* element) the text between a "[" and its "]"
CharToken(c) == [array |-> FALSE, text |-> <<c>>]
ArrayToken(text) == [array |-> TRUE, text |-> text]

\* the loop of parseTypeString over the characters from the i-th on
RECURSIVE Tokens(_, _, _, _, _)
Tokens(type_string, i, tokens, current_token, brackets_open) ==
    IF i > Len(type_string) THEN tokens
    ELSE LET c == type_string[i]
         IN  IF c = "[" /\ brackets_open = 0
             THEN Tokens(type_string, i + 1, tokens, <<>>, 1)
             ELSE IF c = "[" /\ brackets_open > 0
             THEN Tokens(type_string, i + 1, tokens,
                         Append(current_token, c), brackets_open + 1)
             ELSE IF c = "]" /\ brackets_open > 0
             THEN IF brackets_open - 1 = 0
                  THEN Tokens(type_string, i + 1,
                              Append(tokens, ArrayToken(current_token)),
                              current_token, 0)
                  ELSE Tokens(type_string, i + 1, tokens,
                              Append(current_token, c), brackets_open - 1)
             ELSE IF c \in DOMAIN OSCTypeSimpleMap
             THEN IF brackets_open = 0
                  THEN Tokens(type_string, i + 1,
                              Append(tokens, CharToken(c)),
                              current_token, brackets_open)
                  ELSE Tokens(type_string, i + 1, tokens,
                              Append(current_token, c), brackets_open)
             ELSE Tokens(type_string, i + 1, tokens, current_token,
                         brackets_open)

\* a text without its brackets
Unbracketed(text) == SelectSeq(text, LAMBDA c : c \notin {"[", "]"})

\* parseTypeString that parses the text of an array without its nesting
RECURSIVE parseTypeStringFlat(_)
parseTypeStringFlat(type_string) ==
    LET tokens == Tokens(type_string, 1, <<>>, <<>>, 0)
    IN  [k \in 1..Len(tokens) |->
           IF tokens[k].array
           THEN ArrayOf(parseTypeStringFlat(Unbracketed(tokens[k].text)))
           ELSE Simple(OSCTypeSimpleMap[tokens[k].text[1]])]

\* parseTypeString(type_string)
RECURSIVE parseTypeString(_)
parseTypeString(type_string) ==
    LET tokens == Tokens(type_string, 1, <<>>, <<>>, 0)
    IN  [k \in 1..Len(tokens) |->
           IF tokens[k].array
           THEN ArrayOf(parseTypeString(tokens[k].text))
           ELSE Simple(OSCTypeSimpleMap[tokens[k].text[1]])]

\* a step of a serializer or a parser
ParseStep(op, newParse) ==
    /\ parse' = newParse
    /\ sent' = NoFrames
    /\ bcast' = <<>>
    /\ inbound' = None
    /\ lastOp' = op
    /\ response' = None
    /\ UNCHANGED <<codec, life, disc, nodes, broadcastOpt, call>>
    /\ UNCHANGED <<hubState, wsClients, sock, subscribedPaths>>

\* serialize() writes TYPE from the arguments' types
ReconstructType ==
    /\ parse.input # None
    /\ parse.text = None
    /\ ParseStep("reconstruct type",
                 [parse EXCEPT !.text = Some(getTypeString(parse.input[1]))])

\* deserializeMethodNode hands TYPE to parseTypeString
ParseType ==
    /\ parse.text # None
    /\ parse.output = None
    /\ ParseStep("parse type",
                 [parse EXCEPT !.output = Some(parseTypeString(parse.text[1]))])

-----------------------------------------------------------------------------
(* The wire form of a node: OSCNode.serialize() of the server and           *)
(* deserializeMethodNode of the discovery client.  Here a node is a value:  *)
(* a record with its name, its attributes and the sequence of its children. *)
(* An attribute that is not set is Undefined (description, clipmode), None  *)
(* (access, tags, critical, arguments), JsUndefined (a value, a bound of a  *)
(* range) or NoRange (a range).                                             *)

JsUndefined == [t |-> "undefined", n |-> 0, s |-> <<>>, b |-> <<>>]

\* an OSCQRange: an object with min, max and vals, null, or an array of
\* ranges (for an argument of an array type); NoRange when there is none
RangeObject(min, max, vals) ==
    [k |-> "object", min |-> min, max |-> max, vals |-> vals, items |-> <<>>]
RangeNull ==
    [k |-> "null", min |-> JsUndefined, max |-> JsUndefined, vals |-> None,
     items |-> <<>>]
RangeArray(items) ==
    [k |-> "array", min |-> JsUndefined, max |-> JsUndefined, vals |-> None,
     items |-> items]
NoRange ==
    [k |-> "undefined", min |-> JsUndefined, max |-> JsUndefined,
     vals |-> None, items |-> <<>>]

\* an OSCMethodArgument
Argument(type, range, clipmode, value) ==
    [type |-> type, range |-> range, clipmode |-> clipmode, value |-> value]

\* a node as a value
TreeNode(name, opts, children) ==
    [name |-> name, description |-> opts.description, access |-> opts.access,
     tags |-> opts.tags, critical |-> opts.critical,
     arguments |-> opts.arguments, children |-> children]

\* full_path: computed from the ancestry
FullPath(parentPath, name) ==
    IF parentPath = None THEN <<"/">>
    ELSE IF parentPath[1] = <<"/">> THEN <<"/">> \o name
    ELSE parentPath[1] \o <<"/">> \o name

\* the RangeEntry of a range: MIN, MAX and VALS of an object (a member that
\* is not set is left out), null, or the array of the entries
RECURSIVE serializeRange(_)
serializeRange(range) ==
    IF range.k = "array"
    THEN RangeArray([i \in 1..Len(range.items) |->
                        serializeRange(range.items[i])])
    ELSE IF range.k = "object" THEN range
    ELSE RangeNull

\* serialize() emits the arrays VALUE, RANGE and CLIPMODE: an argument has
\* a value, a range or a clipmode
EmitsArraysOf(n) ==
    /\ n.arguments # None
    /\ \E i \in 1..Len(n.arguments[1]) :
          \/ n.arguments[1][i].value # JsUndefined
          \/ n.arguments[1][i].range # NoRange
          \/ n.arguments[1][i].clipmode # Undefined

\* serialize(): FULL_PATH, and only the attributes that are set; TYPE for a
\* node with arguments and, when an argument has a value, a range or a
\* clipmode, the arrays VALUE, RANGE and CLIPMODE with null where an
\* argument has none
RECURSIVE serialize(_, _)
serialize(n, parentPath) ==
    LET path == FullPath(parentPath, n.name)
        args == n.arguments[1]
    IN  [FULL_PATH |-> path,
         CONTENTS |->
            IF n.children = <<>> THEN None
            ELSE Some([k \in 1..Len(n.children) |->
                          [key |-> n.children[k].name,
                           node |-> serialize(n.children[k], Some(path))]]),
         TYPE |->
            IF n.arguments = None THEN None
            ELSE Some(getTypeString([i \in 1..Len(args) |-> args[i].type])),
         ACCESS |-> SerializedAccess(n),
         VALUE |->
            IF ~EmitsArraysOf(n) THEN None
            ELSE Some([i \in 1..Len(args) |->
                          IF args[i].value = JsUndefined THEN JsNull
                          ELSE args[i].value]),
         RANGE |->
            IF ~EmitsArraysOf(n) THEN None
            ELSE Some([i \in 1..Len(args) |-> serializeRange(args[i].range)]),
         CLIPMODE |->
            IF ~EmitsArraysOf(n) THEN None
            ELSE Some([i \in 1..Len(args) |->
                          IF args[i].clipmode = Undefined THEN "null"
                          ELSE args[i].clipmode]),
         DESCRIPTION |-> n.description,
         TAGS |-> n.tags,
         CRITICAL |-> n.critical]

\* OSCQAccessMap: the access of each number of the wire form
OSCQAccessMap ==
    [k \in 0..3 |-> CASE k = 0 -> NO_VALUE
                      [] k = 1 -> READONLY
                      [] k = 2 -> WRITEONLY
                      [] k = 3 -> READWRITE]

\* full_path_split[full_path_split.length - 1] of FULL_PATH.split("/")
RECURSIVE LastSegment(_)
LastSegment(path) ==
    IF path = <<>> THEN <<>>
    ELSE IF path[Len(path)] = "/" THEN <<>>
    ELSE Append(LastSegment(SubSeq(path, 1, Len(path) - 1)), path[Len(path)])

\* deserializeRange(range)
RECURSIVE deserializeRange(_)
deserializeRange(range) ==
    IF range.k = "array"
    THEN RangeArray([i \in 1..Len(range.items) |->
                        deserializeRange(range.items[i])])
    ELSE IF range.k # "null"
    THEN RangeObject(range.min, range.max, range.vals)
    ELSE RangeNull

\* the method_arg deserializeMethodNode builds for the i-th type
MethodArg(node, arg_types, i) ==
    Argument(arg_types[i],
             IF node.RANGE # None /\ node.RANGE[1][i].k # "null"
             THEN deserializeRange(node.RANGE[1][i]) ELSE NoRange,
             IF node.CLIPMODE # None /\ node.CLIPMODE[1][i] \notin {"null", ""}
             THEN node.CLIPMODE[1][i] ELSE Undefined,
             IF node.VALUE # None /\ node.VALUE[1][i] # JsUndefined
             THEN node.VALUE[1][i] ELSE JsUndefined)

\* deserializeMethodNode(node): the parent is the node under construction
\* one level up
RECURSIVE deserializeMethodNode(_)
deserializeMethodNode(node) ==
    LET arg_types == parseTypeString(node.TYPE[1])
    IN  TreeNode(LastSegment(node.FULL_PATH),
                 [description |-> node.DESCRIPTION,
                  access |-> IF node.ACCESS # None /\ node.ACCESS[1] # 0
                             THEN Some(OSCQAccessMap[node.ACCESS[1]])
                             ELSE None,
                  tags |-> node.TAGS,
                  critical |-> node.CRITICAL,
                  arguments |->
                     IF node.TYPE # None /\ node.TYPE[1] # <<>>
                     THEN Some([i \in 1..Len(arg_types) |->
                                   MethodArg(node, arg_types, i)])
                     ELSE None],
                 IF node.CONTENTS # None
                 THEN [k \in 1..Len(node.CONTENTS[1]) |->
                          deserializeMethodNode(node.CONTENTS[1][k].node)]
                 ELSE <<>>)

\* the server serializes its tree for GET /
SerializeTree ==
    /\ parse.input # None
    /\ parse.text = None
    /\ ParseStep("serialize",
                 [parse EXCEPT !.text = Some(serialize(parse.input[1], None))])

\* DiscoveredService.update(): this._nodes = deserializeMethodNode(data)
DeserializeTree ==
    /\ parse.text # None
    /\ parse.output = None
    /\ ParseStep("deserialize",
                 [parse EXCEPT
                    !.output = Some(deserializeMethodNode(parse.text[1]))])

-----------------------------------------------------------------------------
\* the embedding application calls the hub's broadcastPathChanged(path)
BroadcastPathChanged(path) ==
    /\ hubState = "running"
    /\ Commit([broadcastPathChanged(World, path) EXCEPT
                 !.bcast = <<[kind |-> "PATH_CHANGED", path |-> path]>>],
              "broadcastPathChanged")
    /\ UNCHANGED <<broadcastOpt, hubState, sock, subscribedPaths>>

\* the embedding application calls the hub's broadcastOSCMessage(path, args)
BroadcastOSCMessage(path, args) ==
    /\ hubState = "running"
    /\ Commit([broadcastOSCMessage(World, path, args) EXCEPT
                 !.bcast = <<[kind |-> "OSC", path |-> path]>>],
              "broadcastOSCMessage")
    /\ UNCHANGED <<broadcastOpt, hubState, sock, subscribedPaths>>

\* the embedding application calls broadcastPathRenamed(oldPath, newPath)
BroadcastPathRenamed(oldPath, newPath) ==
    /\ hubState = "running"
    /\ Commit([broadcastPathRenamed(World, oldPath, newPath) EXCEPT
                 !.bcast = <<[kind |-> "PATH_RENAMED", path |-> newPath]>>],
              "broadcastPathRenamed")
    /\ UNCHANGED <<broadcastOpt, hubState, sock, subscribedPaths>>

-----------------------------------------------------------------------------
(* Spec: the server with its WebSocket clients; sockets stay healthy *)

\* the descriptions and the paths the application uses
ServerDescs == {Opts(Undefined, Some(READWRITE), Some(<<ArgInt>>))}
ServerPaths == {<<"/", "a">>, <<"/", "a", "/", "b">>}

Next ==
    \/ \E path \in ServerPaths, params \in ServerDescs : AddMethod(path, params)
    \/ \E path \in ServerPaths : RemoveMethod(path)
    \/ \E path \in ServerPaths, i \in 0..1, v \in Values : SetValue(path, i, v)
    \/ \E path \in ServerPaths, i \in 0..1 : UnsetValue(path, i)
    \/ \E from \in Sources, path \in ServerPaths, args \in ArgLists :
           ReceiveOSCMessage(from, path, args)
    \/ StartCreateHub
    \/ StartHub
    \/ Stop
    \/ \E c \in Clients : Connect(c)
    \/ \E c \in Clients : Disconnect(c)
    \/ \E c \in Clients, data \in SubInputs : Listen(c, data)
    \/ \E c \in Clients, data \in SubInputs : Ignore(c, data)

Spec == Init /\ [][Next]_vars

-----------------------------------------------------------------------------
(* SpecTree: the method tree under the mutator API, once start() has built  *)
(* the hub; no client is connected                                         *)

InitTree ==
    /\ nodes = [id \in {RootId} |->
                  [NewNode(RootName, Null) EXCEPT
                     !.description = "root node", !.access = Some(NO_VALUE)]]
    /\ broadcastOpt = FALSE
    /\ hubState = "running"
    /\ wsClients = {}
    /\ sock = [c \in Clients |-> "NONE"]
    /\ subscribedPaths = [c \in Clients |-> {}]
    /\ sent = NoFrames
    /\ bcast = <<>>
    /\ inbound = None
    /\ lastOp = "hubStart"
    /\ response = None
    /\ call = None
    /\ life = None
    /\ disc = None
    /\ parse = None
    /\ codec = None

NextTree ==
    \/ \E path \in PathInputs, params \in MethodDescs : AddMethod(path, params)
    \/ \E path \in PathInputs : RemoveMethod(path)

SpecTree == InitTree /\ [][NextTree]_vars

-----------------------------------------------------------------------------
(* SpecOsc: value slots and inbound OSC on methods of every access *)

\* inbound OSC comes from the UDP listener and from one WebSocket client
OscSources == {"udp", "A"}

NextOsc ==
    \/ \E path \in ServerPaths, params \in AccessDescs : AddMethod(path, params)
    \/ \E path \in ServerPaths, i \in 0..1, v \in Values : SetValue(path, i, v)
    \/ \E path \in ServerPaths, i \in 0..1 : UnsetValue(path, i)
    \/ \E from \in OscSources, path \in ServerPaths, args \in ArgLists :
           ReceiveOSCMessage(from, path, args)
    \/ StartCreateHub
    \/ StartHub
    \/ Stop
    \/ \E c \in OscSources \cap Clients : Connect(c)
    \/ \E c \in OscSources \cap Clients : Disconnect(c)

SpecOsc == Init /\ [][NextOsc]_vars

-----------------------------------------------------------------------------
(* SpecHub: the hub's own interface, sockets that close or fail included *)

HubPaths ==
    {<<"/", "a">>, <<"/", "a", "b">>, <<"/", "a", "/", "b", "/", "c">>, <<"/", "b">>}

\* the renamings announced: "/a" to "/ab" and "/b" to "/a"
RenamePairs ==
    {<< <<"/", "a">>, <<"/", "a", "b">> >>, << <<"/", "b">>, <<"/", "a">> >>}

NextHub ==
    \/ StartCreateHub
    \/ StartHub
    \/ Stop
    \/ \E c \in Clients : Connect(c)
    \/ \E c \in Clients : Disconnect(c)
    \/ \E c \in Clients : SocketCloses(c)
    \/ \E c \in Clients : SocketBreaks(c)
    \/ \E c \in Clients, data \in SubInputs : Listen(c, data)
    \/ \E c \in Clients, data \in SubInputs : Ignore(c, data)
    \/ \E path \in HubPaths : BroadcastPathChanged(path)
    \/ \E path \in HubPaths, args \in ArgLists : BroadcastOSCMessage(path, args)
    \/ \E pair \in RenamePairs : BroadcastPathRenamed(pair[1], pair[2])

SpecHub == Init /\ [][NextHub]_vars

-----------------------------------------------------------------------------
(* SpecRoot: the hub's broadcasts with clients that listen to the root path *)

\* the paths a client names in LISTEN: the root and one node
RootSubInputs == {<<"/">>, <<"/", "a">>}

\* the paths broadcast: the root, a node, a node below it and another node
RootPaths == {<<"/">>, <<"/", "a">>, <<"/", "a", "/", "b">>, <<"/", "b">>}

NextRoot ==
    \/ StartCreateHub
    \/ StartHub
    \/ Stop
    \/ \E c \in Clients : Connect(c)
    \/ \E c \in Clients : Disconnect(c)
    \/ \E c \in Clients, data \in RootSubInputs : Listen(c, data)
    \/ \E c \in Clients, data \in RootSubInputs : Ignore(c, data)
    \/ \E path \in RootPaths : BroadcastPathChanged(path)
    \/ \E path \in RootPaths, args \in ArgLists : BroadcastOSCMessage(path, args)

SpecRoot == Init /\ [][NextRoot]_vars

-----------------------------------------------------------------------------
(* SpecSpell: the mutators called with several spellings of one path, with  *)
(* clients that listen to its canonical spelling                           *)

\* "/a/b", "/a//b", "a/b" and "/a/b/": all four resolve to the node b of a
SpellPaths ==
    {<<"/", "a", "/", "b">>, <<"/", "a", "/", "/", "b">>, <<"a", "/", "b">>,
     <<"/", "a", "/", "b", "/">>}

\* the path the clients name in LISTEN
SpellSubInputs == {<<"/", "a", "/", "b">>}

NextSpell ==
    \/ \E path \in SpellPaths, params \in ServerDescs : AddMethod(path, params)
    \/ \E path \in SpellPaths : RemoveMethod(path)
    \/ \E path \in SpellPaths, i \in 0..1, v \in Values : SetValue(path, i, v)
    \/ \E path \in SpellPaths, i \in 0..1 : UnsetValue(path, i)
    \/ StartCreateHub
    \/ StartHub
    \/ Stop
    \/ \E c \in Clients : Connect(c)
    \/ \E c \in Clients : Disconnect(c)
    \/ \E c \in Clients, data \in SpellSubInputs : Listen(c, data)

SpecSpell == Init /\ [][NextSpell]_vars

-----------------------------------------------------------------------------
(* OSCQueryWebSocketServer: the "message" handler of a connection.  A frame *)
(* is its buffer, data, and what JSON.parse makes of the text of the buffer: *)
(* json tells whether JSON.parse returns, message is what it returns        *)

\* data.length > 0 && (data[0] === 0x2F || data[0] === 0x23)
IsBinaryOSCSlashOnly(data) == Len(data) > 0 /\ data[1] = 47

IsBinaryOSC(data) == Len(data) > 0 /\ (data[1] = 47 \/ data[1] = 35)

\* the calls of this._onOSCMessage made for a binary frame: one when the
\* decoder returns a message, none when it returns null
OSCMessageCalls(data) ==
    LET decoded == _decodeOSCMessage(data)
    IN IF decoded # Null THEN <<decoded>> ELSE <<>>

\* the handler set by the server, applied to each call in turn
RECURSIVE ReceiveAll(_, _)
ReceiveAll(w, calls) ==
    IF calls = <<>> THEN w
    ELSE ReceiveAll(receiveOSCMessage(w, Head(calls).path, Head(calls).args), Tail(calls))

\* _handleMessage(client, data): the calls of the OSC handler, the world they
\* leave and the client's subscription set
_handleFrame(w, subs, frame) ==
    IF IsBinaryOSC(frame.data)
    THEN [calls |-> OSCMessageCalls(frame.data),
          w |-> ReceiveAll(w, OSCMessageCalls(frame.data)),
          subs |-> subs]
    ELSE [calls |-> <<>>, w |-> w, subs |-> _handleMessage(subs, frame)]

\* ws.on("message") for any frame of client c
HandleFrame(c, frame) ==
    LET r == _handleFrame(World, subscribedPaths[c], frame)
    IN /\ sock[c] \in {"OPEN", "BROKEN"}
       /\ nodes' = r.w.nodes
       /\ wsClients' = r.w.clients
       /\ sent' = r.w.sent
       /\ bcast' = r.w.bcast
       /\ subscribedPaths' = [subscribedPaths EXCEPT ![c] = r.subs]
       /\ inbound' = Some([from |-> c, data |-> frame.data, calls |-> r.calls])
       /\ lastOp' = "frame"
       /\ response' = None
       /\ UNCHANGED <<codec, life, disc, parse, call>>
       /\ UNCHANGED <<broadcastOpt, hubState, sock>>

-----------------------------------------------------------------------------
(* SpecCall: the mutators statement by statement.  A mutator is synchronous: *)
(* from its call to its return no other handler of the process runs, so the  *)
(* hub and the clients move only while no call is under way.  call is None   *)
(* or holds the call under way: its operation and path, the tree it was      *)
(* called on, the node it holds and the statement it has reached             *)

Running(op, path, pc, node) ==
    Some([op |-> op, path |-> path, entry |-> nodes, node |-> node, pc |-> pc])

\* one statement of a mutator: the world it leaves, and where the call stands
CallStep(w, op, newCall) ==
    /\ nodes' = w.nodes
    /\ wsClients' = w.clients
    /\ sent' = w.sent
    /\ bcast' = w.bcast
    /\ inbound' = None
    /\ lastOp' = op
    /\ response' = None
    /\ call' = newCall
    /\ UNCHANGED <<codec, life, disc, parse>>
    /\ UNCHANGED <<broadcastOpt, hubState, sock, subscribedPaths>>

\* addMethod(path, params) is called and runs up to its broadcast: the loop
\* over the segments and node.setOpts(params)
AddMethodEnters(path, params) ==
    LET made == CreatePath(nodes, RootId, Split(path))
    IN /\ call = None
       /\ CallStep([World EXCEPT !.nodes = setOpts(made.h, made.node, params)],
                   "addMethod enters",
                   Running("addMethod", path, "broadcast", made.node))

\* removeMethod(path) is called: if (!node) return; node.setOpts({})
RemoveMethodEnters(path) ==
    LET node == _getNodeForPath(nodes, path)
    IN /\ call = None
       /\ IF node = Null
          THEN CallStep(World, "removeMethod enters",
                        Running("removeMethod", path, "return", Null))
          ELSE CallStep([World EXCEPT !.nodes = setOpts(@, node, EmptyOpts)],
                        "removeMethod enters",
                        Running("removeMethod", path, "loop", node))

\* while (node.parent != null && node.isEmpty())
LoopCondition(h, node) == h[node].parent # Null /\ isEmpty(h[node])

\* one pass of the loop of removeMethod: removeChild, node = node.parent and
\* the broadcast of the parent's path
RemoveLoopPass ==
    /\ call # None
    /\ call[1].pc = "loop"
    /\ LoopCondition(nodes, call[1].node)
    /\ LET node == call[1].node
           parent == nodes[node].parent
           parentPath == _getPathForNode(nodes, parent)
           w1 == [World EXCEPT !.nodes = removeChild(@, parent, nodes[node].name)]
           w2 == IF Len(parentPath) > 0 THEN NotifyPathChanged(w1, parentPath) ELSE w1
       IN CallStep(w2, "removeMethod loop", Some([call[1] EXCEPT !.node = parent]))

\* setValue(path, arg_index, value) is called: the node is looked up and
\* node.setValue runs; an invalid index raises out of the mutator
SetValueEnters(path, arg_index, value) ==
    LET node == _getNodeForPath(nodes, path)
    IN /\ call = None
       /\ IF node = Null
          THEN CallStep(World, "setValue enters",
                        Running("setValue", path, "return", Null))
          ELSE IF ~ValidIndex(nodes[node], arg_index)
               THEN CallStep(World, "setValue raised", None)
               ELSE CallStep([World EXCEPT !.nodes = nodeSetValue(@, node, arg_index, value)],
                             "setValue enters",
                             Running("setValue", path, "broadcast", node))

\* unsetValue(path, arg_index) is called
UnsetValueEnters(path, arg_index) ==
    LET node == _getNodeForPath(nodes, path)
    IN /\ call = None
       /\ IF node = Null
          THEN CallStep(World, "unsetValue enters",
                        Running("unsetValue", path, "return", Null))
          ELSE IF ~ValidIndex(nodes[node], arg_index)
               THEN CallStep(World, "unsetValue raised", None)
               ELSE CallStep([World EXCEPT !.nodes = nodeUnsetValue(@, node, arg_index)],
                             "unsetValue enters",
                             Running("unsetValue", path, "broadcast", node))

\* the last statement of each mutator:
\* if (this._wsServer) this._wsServer.broadcastPathChanged(path)
BroadcastsPath ==
    /\ call # None
    /\ \/ call[1].pc = "broadcast"
       \/ call[1].pc = "loop" /\ ~LoopCondition(nodes, call[1].node)
    /\ CallStep(NotifyPathChanged(World, call[1].path), "mutator broadcasts",
                Some([call[1] EXCEPT !.pc = "return"]))

\* the mutator returns to its caller
Returns ==
    /\ call # None
    /\ call[1].pc = "return"
    /\ CallStep(World, call[1].op, None)

NextCall ==
    \/ \E path \in ServerPaths, params \in ServerDescs : AddMethodEnters(path, params)
    \/ \E path \in ServerPaths : RemoveMethodEnters(path)
    \/ RemoveLoopPass
    \/ \E path \in ServerPaths, i \in 0..1, v \in Values : SetValueEnters(path, i, v)
    \/ \E path \in ServerPaths, i \in 0..1 : UnsetValueEnters(path, i)
    \/ BroadcastsPath
    \/ Returns
    \/ call = None /\ StartCreateHub
    \/ call = None /\ StartHub
    \/ call = None /\ Stop
    \/ call = None /\ \E c \in Clients : Connect(c)
    \/ call = None /\ \E c \in Clients : Disconnect(c)
    \/ call = None /\ \E c \in Clients, data \in SubInputs : Listen(c, data)

SpecCall == Init /\ [][NextCall]_vars

-----------------------------------------------------------------------------
(* SpecMsg: the text frames of connected clients *)

\* the DATA member of a message: a path, the empty string, a number, or none
DataInputs ==
    {[type |-> "string", text |-> str] : str \in SubInputs \cup {<<>>}}
        \cup {[type |-> "number", text |-> <<>>], [type |-> "undefined", text |-> <<>>]}

\* the COMMAND member: the two the hub handles and one it does not
CommandInputs == {"LISTEN", "IGNORE", "PATH_CHANGED"}

\* the parsed messages
MessageInputs ==
    {[COMMAND |-> cmd, DATA |-> d] : cmd \in CommandInputs, d \in DataInputs}

\* the text frames: those JSON.parse accepts, and one it rejects
FrameInputs ==
    {[json |-> TRUE, message |-> m] : m \in MessageInputs}
        \cup {[json |-> FALSE, message |-> [COMMAND |-> "", DATA |-> [type |-> "undefined", text |-> <<>>]]]}

NextMsg ==
    \/ StartCreateHub
    \/ StartHub
    \/ Stop
    \/ \E c \in Clients : Connect(c)
    \/ \E c \in Clients : Disconnect(c)
    \/ \E c \in Clients, frame \in FrameInputs : HandleMessage(c, frame)

SpecMsg == Init /\ [][NextMsg]_vars

-----------------------------------------------------------------------------
(* SpecFrame: the frames of connected clients, binary and text, on a server *)
(* with methods                                                            *)

\* the buffers that start with "/" or "#": two messages for "/a", with one
\* argument and with none, two bytes, four bytes without a zero, and "#b"
BinaryBuffers ==
    {_encodeOSCMessage(<<"/", "a">>, <<Num(2)>>),
     _encodeOSCMessage(<<"/", "a">>, <<>>),
     <<47, 97>>,
     <<47, 97, 97, 97>>,
     <<35, 98, 0, 0>>}

\* a buffer that starts with "{", standing for the text of a JSON object
TextBuffer == <<123, 125>>

\* the frames: the binary ones, whose text JSON.parse would reject; the text
\* frames JSON.parse accepts and one it rejects; and the empty frame
WireFrames ==
    {[data |-> b, json |-> FALSE,
      message |-> [COMMAND |-> "", DATA |-> [type |-> "undefined", text |-> <<>>]]]
        : b \in BinaryBuffers \cup {<<>>}}
      \cup {[data |-> TextBuffer, json |-> f.json, message |-> f.message]
              : f \in FrameInputs}

NextFrame ==
    \/ \E path \in ServerPaths, params \in ServerDescs : AddMethod(path, params)
    \/ StartCreateHub
    \/ StartHub
    \/ Stop
    \/ \E c \in Clients : Connect(c)
    \/ \E c \in Clients : Disconnect(c)
    \/ \E c \in Clients, frame \in WireFrames : HandleFrame(c, frame)

SpecFrame == Init /\ [][NextFrame]_vars

-----------------------------------------------------------------------------
(* SpecHttp: the HTTP handler over the tree and the states of the hub *)

\* an argument that declares a range
ArgRanged == [type |-> "INT", value |-> Undefined, range |-> "r"]

\* the descriptions of the methods that are queried
HttpDescs ==
    {Opts(Undefined, Some(READONLY), Some(<<ArgInt>>)),
     Opts(Undefined, Some(WRITEONLY), Some(<<ArgInt>>)),
     Opts(Undefined, Some(READWRITE), Some(<<ArgRanged>>))}

\* url.pathname of the requests
HttpPaths == {<<"/">>, <<"/", "a">>, <<"/", "a", "/", "b">>}

\* url.search without its "?": none, three attributes, and one that is not
\* an attribute
HttpQueries == {Undefined, "HOST_INFO", "VALUE", "ACCESS", "BOGUS"}

\* the requests: every GET, one OPTIONS and one POST
HttpRequests ==
    {<<"GET", p, q>> : p \in HttpPaths, q \in HttpQueries}
        \cup {<<"OPTIONS", <<"/", "a">>, Undefined>>, <<"POST", <<"/", "a">>, "VALUE">>}

NextHttp ==
    \/ \E path \in ServerPaths, params \in HttpDescs : AddMethod(path, params)
    \/ \E path \in ServerPaths : RemoveMethod(path)
    \/ \E path \in ServerPaths, v \in Values : SetValue(path, 0, v)
    \/ StartCreateHub
    \/ StartHub
    \/ StartStandalone
    \/ HubListening
    \/ HubError
    \/ Stop
    \/ StopIdle
    \/ \E req \in HttpRequests : HttpRequest(req[1], req[2], req[3])

SpecHttp == Init /\ [][NextHttp]_vars

-----------------------------------------------------------------------------
(* SpecCodec: messages through the encoder and then the decoder *)

\* the supported values: int32 integers, numbers with a fraction, strings,
\* booleans, null and blobs
CodecValues ==
    {Num(8), Num(-2), Num(7), Num(-1), Str(<<"x">>), Str(<<"a", "b", "c", "a">>),
     Bool(TRUE), Bool(FALSE), JsNull, Blob(<<1, 2, 3>>), Blob(<<>>)}

\* "/bar" with [4, 3.5, "x", true, null]
ExampleArgs == <<Num(8), Num(7), Str(<<"x">>), Bool(TRUE), JsNull>>

CodecArgLists ==
    UNION {[1..n -> CodecValues] : n \in 0..MaxArgs} \cup {ExampleArgs}

CodecPaths == {<<"/", "b", "a", "r">>, <<"/", "a", "/", "b">>}

InitCodec ==
    /\ nodes = [id \in {RootId} |->
                  [NewNode(RootName, Null) EXCEPT
                     !.description = "root node", !.access = Some(NO_VALUE)]]
    /\ broadcastOpt = FALSE
    /\ hubState = "null"
    /\ wsClients = {}
    /\ sock = [c \in Clients |-> "NONE"]
    /\ subscribedPaths = [c \in Clients |-> {}]
    /\ sent = NoFrames
    /\ bcast = <<>>
    /\ inbound = None
    /\ lastOp = "init"
    /\ response = None
    /\ call = None
    /\ life = None
    /\ disc = None
    /\ parse = None
    /\ \E path \in CodecPaths, args \in CodecArgLists :
          codec = Some([path |-> path, args |-> args, buffer |-> None, decoded |-> None])

NextCodec ==
    \/ Encode
    \/ Decode

SpecCodec == InitCodec /\ [][NextCodec]_vars

-----------------------------------------------------------------------------
(* SpecTrunc: encoded messages that reach the decoder shortened *)

\* the numbers of bytes a buffer may lose
Cuts == {1, 2, 3, 4}

InitTrunc ==
    /\ nodes = [id \in {RootId} |->
                  [NewNode(RootName, Null) EXCEPT
                     !.description = "root node", !.access = Some(NO_VALUE)]]
    /\ broadcastOpt = FALSE
    /\ hubState = "null"
    /\ wsClients = {}
    /\ sock = [c \in Clients |-> "NONE"]
    /\ subscribedPaths = [c \in Clients |-> {}]
    /\ sent = NoFrames
    /\ bcast = <<>>
    /\ inbound = None
    /\ lastOp = "init"
    /\ response = None
    /\ call = None
    /\ life = None
    /\ disc = None
    /\ parse = None
    /\ \E path \in CodecPaths, args \in CodecArgLists :
          codec = Some([path |-> path, args |-> args, buffer |-> None,
                        decoded |-> None, cut |-> 0])

NextTrunc ==
    \/ Encode
    \/ \E cut \in Cuts : Truncate(cut)
    \/ Decode

SpecTrunc == InitTrunc /\ [][NextTrunc]_vars

-----------------------------------------------------------------------------
(* SpecNum: numeric arguments through the encoder *)

\* 4, -1, 3.5, -0.5, 2^31 - 1, -2^31, 2^31, 3 * 2^30 and -3 * 2^30
NumValues ==
    {Num(8), Num(-2), Num(7), Num(-1), NumScaled(2147483647, 1),
     NumScaled(-2147483647 - 1, 1), NumScaled(4, 30), NumScaled(6, 30),
     NumScaled(-6, 30)}

NumArgLists == UNION {[1..n -> NumValues] : n \in 0..MaxArgs}

InitNum ==
    /\ nodes = [id \in {RootId} |->
                  [NewNode(RootName, Null) EXCEPT
                     !.description = "root node", !.access = Some(NO_VALUE)]]
    /\ broadcastOpt = FALSE
    /\ hubState = "null"
    /\ wsClients = {}
    /\ sock = [c \in Clients |-> "NONE"]
    /\ subscribedPaths = [c \in Clients |-> {}]
    /\ sent = NoFrames
    /\ bcast = <<>>
    /\ inbound = None
    /\ lastOp = "init"
    /\ response = None
    /\ call = None
    /\ life = None
    /\ disc = None
    /\ parse = None
    /\ \E path \in CodecPaths, args \in NumArgLists :
          codec = Some([path |-> path, args |-> args, buffer |-> None, decoded |-> None])

NextNum ==
    \/ Encode
    \/ Decode

SpecNum == InitNum /\ [][NextNum]_vars

-----------------------------------------------------------------------------
(* SpecLife: start() and stop() with their listeners, and SpecLifeFair, in  *)
(* which every event that is pending comes                                  *)

InitLife ==
    /\ nodes = [id \in {RootId} |->
                  [NewNode(RootName, Null) EXCEPT
                     !.description = "root node", !.access = Some(NO_VALUE)]]
    /\ broadcastOpt = FALSE
    /\ hubState = "null"
    /\ wsClients = {}
    /\ sock = [c \in Clients |-> "NONE"]
    /\ subscribedPaths = [c \in Clients |-> {}]
    /\ sent = NoFrames
    /\ bcast = <<>>
    /\ inbound = None
    /\ lastOp = "init"
    /\ response = None
    /\ call = None
    /\ codec = None
    /\ disc = None
    /\ parse = None
    /\ \E mode \in {"attached", "standalone"}, udp \in BOOLEAN :
          life = [mode |-> mode, udp |-> udp, http |-> "idle", osc |-> "idle",
                  mdns |-> "idle", startP |-> "none", stopP |-> "none",
                  uncaught |-> FALSE, destroyed |-> {}]

NextLife ==
    \/ StartCall
    \/ HttpListening
    \/ HttpBindError
    \/ HubStartAttached
    \/ HubListening
    \/ HubError
    \/ OscBound
    \/ OscBindError
    \/ MdnsAdvertised
    \/ MdnsFailed
    \/ StartResolves
    \/ StartRejects
    \/ \E c \in Clients : Connect(c)
    \/ \E c \in Clients : Disconnect(c)
    \/ StopCall
    \/ \E c \in Clients : CloseTimerFires(c)
    \/ HubClosed
    \/ HttpClosed
    \/ OscClosed
    \/ MdnsEnded
    \/ StopResolves

SpecLife == InitLife /\ [][NextLife]_vars

\* the events that come once they are pending: a listener ends up listening
\* or failed, a promise that can be settled is settled, a close timer fires,
\* a close callback is called.  The calls of start() and stop() and what the
\* clients do are not forced
LifeFairness ==
    /\ WF_vars(HttpListening \/ HttpBindError)
    /\ WF_vars(HubStartAttached)
    /\ WF_vars(HubListening \/ HubError)
    /\ WF_vars(OscBound \/ OscBindError)
    /\ WF_vars(MdnsAdvertised \/ MdnsFailed)
    /\ WF_vars(StartResolves)
    /\ WF_vars(StartRejects)
    /\ \A c \in Clients : WF_vars(CloseTimerFires(c))
    /\ WF_vars(HubClosed)
    /\ WF_vars(HttpClosed)
    /\ WF_vars(OscClosed)
    /\ WF_vars(MdnsEnded)
    /\ WF_vars(StopResolves)

SpecLifeFair == InitLife /\ [][NextLife]_vars /\ LifeFairness

-----------------------------------------------------------------------------
(* SpecDisc: the discovery client over the events of its mDNS browser and   *)
(* the answers to its HTTP requests                                         *)

IPv4Address == <<"1", "0", ".", "1">>
IPv6Address == <<":", ":", "1">>
Ports == {0, 8}

\* the address lists a browser reports with a service
AddressLists ==
    {None, Some(<<IPv4Address>>), Some(<<IPv6Address>>),
     Some(<<IPv4Address, IPv6Address>>), Some(<<IPv4Address, IPv4Address>>)}

Service(addresses, port, protocol) ==
    [addresses |-> addresses, port |-> port, protocol |-> protocol]

\* the services a browser reports: TCP services of every address list, one
\* with port 0, and a UDP service
Announcements ==
    {Service(a, 8, "tcp") : a \in AddressLists}
       \cup {Service(Some(<<IPv4Address>>), 0, "tcp"),
             Service(Some(<<IPv4Address>>), 8, "udp")}

InitDisc ==
    /\ nodes = [id \in {RootId} |->
                  [NewNode(RootName, Null) EXCEPT
                     !.description = "root node", !.access = Some(NO_VALUE)]]
    /\ broadcastOpt = FALSE
    /\ hubState = "null"
    /\ wsClients = {}
    /\ sock = [c \in Clients |-> "NONE"]
    /\ subscribedPaths = [c \in Clients |-> {}]
    /\ sent = NoFrames
    /\ bcast = <<>>
    /\ inbound = None
    /\ lastOp = "init"
    /\ response = None
    /\ call = None
    /\ codec = None
    /\ life = None
    /\ parse = None
    /\ disc = [running |-> FALSE, mdns |-> {}, services |-> <<>>,
               fetches |-> <<>>, mdnsEmitted |-> <<>>, emitted |-> <<>>,
               live |-> {}, downed |-> {}, call |-> None]

NextDisc ==
    \/ DiscStart
    \/ DiscStop
    \/ \E service \in Announcements : BrowserUp(service)
    \/ \E service \in Announcements : BrowserDown(service)
    \/ \E i \in 1..MaxQueries, data \in {"rejected", "tree", "other"} :
          BaseResponds(i, data)
    \/ \E i \in 1..MaxQueries, data \in {"rejected", "hostInfo", "other"} :
          HostInfoResponds(i, data)

SpecDisc == InitDisc /\ [][NextDisc]_vars

-----------------------------------------------------------------------------
(* SpecType: type lists through the reconstruction of TYPE and the parser,  *)
(* and texts handed to the parser as they are                               *)

\* the simple types the nested lists are built from
ListSymbols == {"INT", "STRING"}

\* the lists of at most two types, each of them a simple type or one of the
\* arrays given
ListsOver(arrays) ==
    LET elements == {Simple(symbol) : symbol \in ListSymbols}
                        \cup {ArrayOf(types) : types \in arrays}
    IN  UNION {[1..n -> elements] : n \in 0..2}

\* the type lists with arrays nested up to two deep, and each simple type
\* by itself
TypeLists ==
    ListsOver(ListsOver(ListsOver({})))
       \cup {<<Simple(symbol)>> : symbol \in SimpleTypes}

\* the texts handed to the parser: up to four characters of a tag, an
\* alias, the brackets and a character that is no tag
TypeChars == {"i", "S", "[", "]", "x"}
TypeTexts == UNION {[1..n -> TypeChars] : n \in 0..4}

InitType ==
    /\ nodes = [id \in {RootId} |->
                  [NewNode(RootName, Null) EXCEPT
                     !.description = "root node", !.access = Some(NO_VALUE)]]
    /\ broadcastOpt = FALSE
    /\ hubState = "null"
    /\ wsClients = {}
    /\ sock = [c \in Clients |-> "NONE"]
    /\ subscribedPaths = [c \in Clients |-> {}]
    /\ sent = NoFrames
    /\ bcast = <<>>
    /\ inbound = None
    /\ lastOp = "init"
    /\ response = None
    /\ call = None
    /\ codec = None
    /\ life = None
    /\ disc = None
    /\ \/ \E types \in TypeLists :
             parse = [input |-> Some(types), text |-> None, output |-> None]
       \/ \E text \in TypeTexts :
             parse = [input |-> None, text |-> Some(text), output |-> None]

NextType == ReconstructType \/ ParseType

SpecType == InitType /\ [][NextType]_vars

-----------------------------------------------------------------------------
(* SpecNode: server trees through serialize() and deserializeMethodNode     *)

\* the argument lists of the methods: none; an INT; an INT with a value; a
\* FLOAT with a range and the value 0.5; a STRING and an array with the
\* ranges of its elements; an INT with a clipmode and the value 0
NodeArguments ==
    {None,
     Some(<<Argument(Simple("INT"), NoRange, Undefined, JsUndefined)>>),
     Some(<<Argument(Simple("INT"), NoRange, Undefined, Num(4))>>),
     Some(<<Argument(Simple("FLOAT"),
                     RangeObject(Num(0), Num(200), None), Undefined, Num(1))>>),
     Some(<<Argument(Simple("STRING"), NoRange, Undefined, JsUndefined),
            Argument(ArrayOf(<<Simple("INT"), Simple("FALSE")>>),
                     RangeArray(<<RangeObject(Num(-200), JsUndefined, None),
                                  RangeNull>>),
                     Undefined, JsUndefined)>>),
     Some(<<Argument(Simple("INT"), NoRange, "both", Num(0))>>)}

\* the descriptions of the methods
NodeOpts ==
    {[description |-> d, access |-> a, tags |-> t, critical |-> c,
      arguments |-> args] :
        d \in {Undefined, "d"},
        a \in {None, Some(NO_VALUE), Some(READONLY), Some(WRITEONLY),
               Some(READWRITE)},
        t \in {None, Some(<<"t">>)},
        c \in {None, Some(FALSE)},
        args \in NodeArguments}

\* a container that addMethod made on the way to a method
Container(name, children) == TreeNode(name, EmptyOpts, children)

\* the root of a server with these children
RootOver(children) ==
    TreeNode(RootName,
             [EmptyOpts EXCEPT !.description = "root node",
                               !.access = Some(NO_VALUE)],
             children)

\* the trees of a server with one method, at /a or at /a/b (next to a
\* method at /c), and the tree of a server without methods
Trees ==
    {RootOver(<<>>)}
       \cup {RootOver(<<TreeNode(<<"a">>, opts, <<>>)>>) : opts \in NodeOpts}
       \cup {RootOver(<<Container(<<"a">>,
                                  <<TreeNode(<<"b">>, opts, <<>>)>>),
                        TreeNode(<<"c">>,
                                 [EmptyOpts EXCEPT
                                    !.access = Some(READONLY),
                                    !.arguments =
                                       Some(<<Argument(Simple("INT"), NoRange,
                                                       Undefined, Num(4))>>)],
                                 <<>>)>>) :
                opts \in NodeOpts}

InitNode ==
    /\ nodes = [id \in {RootId} |->
                  [NewNode(RootName, Null) EXCEPT
                     !.description = "root node", !.access = Some(NO_VALUE)]]
    /\ broadcastOpt = FALSE
    /\ hubState = "null"
    /\ wsClients = {}
    /\ sock = [c \in Clients |-> "NONE"]
    /\ subscribedPaths = [c \in Clients |-> {}]
    /\ sent = NoFrames
    /\ bcast = <<>>
    /\ inbound = None
    /\ lastOp = "init"
    /\ response = None
    /\ call = None
    /\ codec = None
    /\ life = None
    /\ disc = None
    /\ \E tree \in Trees :
          parse = [input |-> Some(tree), text |-> None, output |-> None]

NextNode == SerializeTree \/ DeserializeTree

SpecNode == InitNode /\ [][NextNode]_vars

-----------------------------------------------------------------------------
(* Properties of the hub's subscription filter *)

\* the paths of the frames of one kind among a list of frames
FramePaths(frames, kind) ==
    {frames[i].path : i \in {j \in 1..Len(frames) : frames[j].kind = kind}}

\* the paths of the broadcast calls of one kind in a log of calls
CallPaths(calls, kind) ==
    {calls[i].path : i \in {j \in 1..Len(calls) : calls[j].kind = kind}}

\* the subscription rule as the specification states it: the set is empty, or
\* some sub equals path, or path goes on after sub with a "/"
SubscriptionCovers(subs, path) ==
    \/ subs = {}
    \/ \E sub \in subs :
          \/ path = sub
          \/ /\ Len(path) > Len(sub)
             /\ SubSeq(path, 1, Len(sub) + 1) = sub \o <<"/">>

\* what one hub broadcast of kind and path must have handed to the sockets
FilterObeyed(kind, path) ==
    \A c \in wsClients :
        readyState(c) = "OPEN" =>
            /\ (sent'[c] # <<>>) <=> SubscriptionCovers(subscribedPaths[c], path)
            /\ \A i \in 1..Len(sent'[c]) :
                  sent'[c][i].kind = kind /\ sent'[c][i].path = path
            /\ Len(sent'[c]) <= 1
            /\ subscribedPaths[c] = {<<"/", "a">>} =>
                  /\ path = <<"/", "a", "/", "b", "/", "c">> => sent'[c] # <<>>
                  /\ path = <<"/", "a", "b">> => sent'[c] = <<>>

\* C1: on every call of broadcastPathChanged(path) or broadcastOSCMessage(path,
\* args), a registered client whose socket is OPEN is handed the message if and
\* only if its subscription set is empty or holds a sub with path = sub or path
\* starting with sub + "/"; a client subscribed to {"/a"} gets "/a/b/c" and
\* does not get "/ab".
C1_SubscriptionFilter ==
    [][\A path \in HubPaths :
          /\ BroadcastPathChanged(path) => FilterObeyed("PATH_CHANGED", path)
          /\ (\E args \in ArgLists : BroadcastOSCMessage(path, args))
                => FilterObeyed("OSC", path)]_vars

\* C1 witness: a broadcast of "/a/b/c" reached the client subscribed to {"/a"}
\* and was kept from a registered, open client subscribed to {"/b"}.
C1_Witness ==
    /\ lastOp = "broadcastPathChanged"
    /\ \E c \in wsClients, d \in wsClients :
          /\ subscribedPaths[c] = {<<"/", "a">>}
          /\ FramePaths(sent[c], "PATH_CHANGED") = {<<"/", "a", "/", "b", "/", "c">>}
          /\ subscribedPaths[d] = {<<"/", "b">>}
          /\ sock[d] = "OPEN"
          /\ sent[d] = <<>>

-----------------------------------------------------------------------------
(* Properties of the mutators' notifications *)

\* the path /a/b, below the subscription /a and outside the subscription /b
PathBelowA == <<"/", "a", "/", "b">>

\* A has sent LISTEN "/a", B has sent LISTEN "/b", neither has sent IGNORE
ListeningAB ==
    /\ hubState = "running"
    /\ {"A", "B"} \subseteq wsClients
    /\ subscribedPaths["A"] = {<<"/", "a">>}
    /\ subscribedPaths["B"] = {<<"/", "b">>}

\* the step is a mutator call on path that returns without raising
MutatorReturns(path) ==
    \/ \E params \in ServerDescs : AddMethod(path, params)
    \/ RemoveMethod(path)
    \/ \E i \in 0..1, v \in Values : SetValue(path, i, v) /\ lastOp' = "setValue"
    \/ \E i \in 0..1 : UnsetValue(path, i) /\ lastOp' = "unsetValue"

\* the step is a mutator call on path that finds something to do: addMethod, or
\* another mutator that finds a node at path and is given a valid index
MutatorTakesEffect(path) ==
    \/ \E params \in ServerDescs : AddMethod(path, params)
    \/ /\ Walk(nodes, RootId, Split(path)) # Null
       /\ MutatorReturns(path)

ToAOnly(path) ==
    /\ path \in FramePaths(sent'["A"], "PATH_CHANGED")
    /\ \A i \in 1..Len(sent'["A"]) : sent'["A"][i].kind = "PATH_CHANGED"
    /\ sent'["B"] = <<>>

\* C2 as stated: with A listening to "/a" and B to "/b", any mutator applied to
\* a path below "/a" while the hub is running sends PATH_CHANGED to A and
\* nothing to B.
C2_AnyMutatorNotifiesA ==
    [][ListeningAB /\ MutatorReturns(PathBelowA) => ToAOnly(PathBelowA)]_vars

\* C2 amended: with A listening to "/a" and B to "/b", addMethod on a path
\* below "/a", and removeMethod, setValue or unsetValue that find a node there,
\* send PATH_CHANGED to A and nothing to B; removeMethod, setValue and unsetValue
\* on a path without a node send nothing to either client.
C2_EffectiveMutatorNotifiesA ==
    [][ListeningAB /\ MutatorReturns(PathBelowA) =>
          IF MutatorTakesEffect(PathBelowA)
          THEN ToAOnly(PathBelowA)
          ELSE sent' = NoFrames /\ nodes' = nodes]_vars

\* C2 witness: a mutator has just notified A of "/a/b" and left B, which is
\* connected and listening to "/b", without any frame.
C2_Witness ==
    /\ lastOp \in {"addMethod", "removeMethod", "setValue", "unsetValue"}
    /\ {"A", "B"} \subseteq wsClients
    /\ subscribedPaths["A"] = {<<"/", "a">>}
    /\ subscribedPaths["B"] = {<<"/", "b">>}
    /\ PathBelowA \in FramePaths(sent["A"], "PATH_CHANGED")
    /\ sent["B"] = <<>>

\* the node a list of segments leads to was created, removed or altered (its
\* attributes, its values or its set of children) by the step
Modified(segs) ==
    LET before == Walk(nodes, RootId, segs)
        after  == Walk(nodes', RootId, segs)
    IN \/ (before = Null) # (after = Null)
       \/ before # Null /\ after # Null /\ nodes[before] # nodes'[after]

\* C3 as stated: while the hub is running, every addMethod, removeMethod,
\* setValue or unsetValue that changes the tree sends a PATH_CHANGED for every
\* path whose node the call modified (a client without subscriptions gets it).
C3_EveryModifiedPathNotified ==
    [][hubState = "running"
         /\ lastOp' \in {"addMethod", "removeMethod", "setValue", "unsetValue"}
         /\ nodes' # nodes
       => \A segs \in SegLists :
             Modified(segs) =>
                /\ CanonicalPath(segs) \in CallPaths(bcast', "PATH_CHANGED")
                /\ \A c \in wsClients :
                      subscribedPaths[c] = {} =>
                         CanonicalPath(segs) \in FramePaths(sent'[c], "PATH_CHANGED")]_vars

-----------------------------------------------------------------------------
(* Properties of the method tree *)

\* the node the first j segments lead to, in a heap
NodeOn(h, segs, j) == Walk(h, RootId, SubSeq(segs, 1, j))

\* no access value, no arguments and no other attribute
Bare(n) ==
    /\ n.access \in {None, Some(NO_VALUE)}
    /\ n.arguments = None
    /\ n.description = Undefined
    /\ n.tags = None
    /\ n.critical = None

\* a pure container: no attribute at all
Cleared(n) ==
    [n EXCEPT !.description = Undefined, !.access = None, !.tags = None,
              !.critical = None, !.arguments = None]

\* node j of the walk is empty once the target is cleared and the nodes below
\* it on the walk are gone; k is the target
EmptyOnWalk(segs, j) ==
    LET n == nodes[NodeOn(nodes, segs, j)]
    IN IF j = Len(segs) THEN DOMAIN n.children = {}
       ELSE Bare(n) /\ DOMAIN n.children = {segs[j + 1]}

\* node j is reached by the walk from the target over empty nodes only
ToBeDetached(segs, j) ==
    j >= 1 /\ \A i \in j..Len(segs) : EmptyOnWalk(segs, i)

WithoutChild(n, seg) ==
    [n EXCEPT !.children = [c \in DOMAIN n.children \ {seg} |-> n.children[c]]]

RemovalOutcome(path) ==
    LET segs == Split(path)
        k == Len(segs)
        onWalk == {NodeOn(nodes, segs, j) : j \in 0..k}
    IN NodeOn(nodes, segs, k) # Null =>
         /\ \A j \in 1..k :
               /\ ToBeDetached(segs, j) <=> NodeOn(nodes', segs, j) = Null
               /\ ToBeDetached(segs, j) <=> NodeOn(nodes, segs, j) \notin DOMAIN nodes'
         /\ RootId \in DOMAIN nodes'
         /\ nodes'[RootId].parent = Null
         /\ ~ToBeDetached(segs, k) =>
               nodes'[NodeOn(nodes, segs, k)] = Cleared(nodes[NodeOn(nodes, segs, k)])
         /\ \A j \in 0..(k - 1) :
               ~ToBeDetached(segs, j) =>
                  nodes'[NodeOn(nodes, segs, j)] =
                     IF ToBeDetached(segs, j + 1)
                     THEN WithoutChild(nodes[NodeOn(nodes, segs, j)], segs[j + 1])
                     ELSE nodes[NodeOn(nodes, segs, j)]
         /\ \A id \in DOMAIN nodes \ onWalk :
               id \in DOMAIN nodes' /\ nodes'[id] = nodes[id]

\* C4: removeMethod(p) on an existing node clears the target's attributes and
\* then, from the target toward the root, detaches each node that is empty (no
\* access value, no arguments, no children, no other attribute), stops at the
\* first node that is not empty, and never detaches the root.
C4_RemovePrunesEmptyNodes ==
    [][lastOp' = "removeMethod" =>
          \A path \in PathInputs : RemoveMethod(path) => RemovalOutcome(path)]_vars

\* C4 witness: a removeMethod has detached its target and the target's parent.
C4_Witness ==
    /\ lastOp = "removeMethod"
    /\ Len(bcast) = 3
    /\ DOMAIN nodes = {RootId}

\* HTTP GET of the first j segments of a path, after the step
GetAfter(segs, j) == _handleGet(nodes', CanonicalPath(SubSeq(segs, 1, j)), Undefined)

\* the strict ancestor j of the target had nothing but the walk's next node
\* and lost it
BecameEmpty(segs, j) ==
    /\ NodeOn(nodes, segs, Len(segs)) # Null
    /\ Bare(nodes[NodeOn(nodes, segs, j)])
    /\ DOMAIN nodes[NodeOn(nodes, segs, j)].children = {segs[j + 1]}
    /\ NodeOn(nodes', segs, j + 1) = Null

\* C5 as stated: for every path p, after removeMethod(p) returns, HTTP GET p
\* answers 404, and so does HTTP GET of every strict ancestor path of p that
\* became empty.
C5_GetAfterRemoveIs404 ==
    [][lastOp' = "removeMethod" =>
          \A path \in PathInputs :
             RemoveMethod(path) =>
                LET segs == Split(path)
                IN /\ GetAfter(segs, Len(segs)) = 404
                   /\ \A j \in 0..(Len(segs) - 1) :
                         BecameEmpty(segs, j) => GetAfter(segs, j) = 404]_vars

\* C5 amended: after removeMethod(p) returns, HTTP GET p answers 404 unless p
\* is "/" or the node at p still has children, in which cases the node stays
\* in the tree and HTTP GET p answers 200; HTTP GET of every strict ancestor
\* path of p other than "/" that became empty answers 404.
C5_GetAfterRemove ==
    [][lastOp' = "removeMethod" =>
          \A path \in PathInputs :
             RemoveMethod(path) =>
                LET segs == Split(path)
                    k == Len(segs)
                    target == NodeOn(nodes, segs, k)
                    stays == target # Null /\ (k = 0 \/ DOMAIN nodes[target].children # {})
                IN /\ GetAfter(segs, k) = IF stays THEN 200 ELSE 404
                   /\ \A j \in 1..(k - 1) :
                         BecameEmpty(segs, j) => GetAfter(segs, j) = 404]_vars

\* C5 witness: a removeMethod has left two paths, the target's and its
\* parent's, answering 404.
C5_Witness ==
    /\ lastOp = "removeMethod"
    /\ CallPaths(bcast, "PATH_CHANGED") =
          {<<"/", "a", "/", "b">>, <<"/", "a">>, <<"/">>}
    /\ _handleGet(nodes, <<"/", "a", "/", "b">>, Undefined) = 404
    /\ _handleGet(nodes, <<"/", "a">>, Undefined) = 404
    /\ _handleGet(nodes, <<"/">>, Undefined) = 200

\* C6: while the hub is running, removeMethod(p) on an existing node
\* broadcasts PATH_CHANGED for p and for each pruned parent path, and a client
\* without subscriptions is sent them; removing "/a/b" when "/a" holds nothing
\* else leaves neither in the tree and broadcasts "/a/b" and "/a".
C6_RemoveBroadcastsPruned ==
    [][lastOp' = "removeMethod" /\ hubState = "running" =>
          \A path \in ServerPaths :
             RemoveMethod(path) /\ NodeOn(nodes, Split(path), Len(Split(path))) # Null =>
                LET segs == Split(path)
                    pruned == {CanonicalPath(SubSeq(segs, 1, j)) :
                                 j \in {i \in 1..(Len(segs) - 1) :
                                          NodeOn(nodes', segs, i) = Null}}
                    due == {path} \cup pruned
                IN /\ due \subseteq CallPaths(bcast', "PATH_CHANGED")
                   /\ \A c \in wsClients :
                         subscribedPaths[c] = {} =>
                            due \subseteq FramePaths(sent'[c], "PATH_CHANGED")
                   /\ /\ path = PathBelowA
                      /\ Bare(nodes[NodeOn(nodes, segs, 1)])
                      /\ DOMAIN nodes[NodeOn(nodes, segs, 1)].children = {segs[2]}
                      /\ DOMAIN nodes[NodeOn(nodes, segs, 2)].children = {}
                      => /\ NodeOn(nodes', segs, 1) = Null
                         /\ NodeOn(nodes', segs, 2) = Null
                         /\ pruned = {<<"/", "a">>}]_vars

\* C6 witness: a removeMethod("/a/b") has taken "/a/b" and "/a" out of the
\* tree and a client without subscriptions holds PATH_CHANGED for both.
C6_Witness ==
    /\ lastOp = "removeMethod"
    /\ _getNodeForPath(nodes, <<"/", "a">>) = Null
    /\ \E c \in wsClients :
          /\ subscribedPaths[c] = {}
          /\ {<<"/", "a", "/", "b">>, <<"/", "a">>}
                \subseteq FramePaths(sent[c], "PATH_CHANGED")

\* the declared attributes of a node, as a description
Attributes(n) ==
    [description |-> n.description, access |-> n.access, tags |-> n.tags,
     critical |-> n.critical, arguments |-> n.arguments]

AdditionOutcome(path, params) ==
    LET segs == Split(path)
        k == Len(segs)
        was(j) == NodeOn(nodes, segs, j)
        now(j) == NodeOn(nodes', segs, j)
    IN /\ \A j \in 0..k : now(j) # Null /\ GetAfter(segs, j) # 404
       /\ Attributes(nodes'[now(k)]) = params
       /\ nodes'[now(k)].children =
             IF was(k) # Null THEN nodes[was(k)].children ELSE EmptyChildren
       /\ \A j \in 0..(k - 1) :
             IF was(j) # Null
             THEN /\ now(j) = was(j)
                  /\ Attributes(nodes'[now(j)]) = Attributes(nodes[was(j)])
                  /\ DOMAIN nodes'[now(j)].children =
                        DOMAIN nodes[was(j)].children \cup {segs[j + 1]}
                  /\ \A c \in DOMAIN nodes[was(j)].children :
                        nodes'[now(j)].children[c] = nodes[was(j)].children[c]
             ELSE /\ Attributes(nodes'[now(j)]) = EmptyOpts
                  /\ DOMAIN nodes'[now(j)].children = {segs[j + 1]}
       /\ \A id \in DOMAIN nodes \ {was(j) : j \in 0..k} :
             id \in DOMAIN nodes' /\ nodes'[id] = nodes[id]

\* C7: addMethod(path, desc) creates every missing node along path as an empty
\* container and applies desc to the final node only: afterwards every prefix
\* of path resolves (HTTP GET is not 404), and the nodes that were there keep
\* their attributes and their other children.
C7_AddCreatesContainers ==
    [][lastOp' = "addMethod" =>
          \A path \in PathInputs, params \in MethodDescs :
             AddMethod(path, params) => AdditionOutcome(path, params)]_vars

\* C7 witness: an addMethod has put a READWRITE method at "/a/b", below a node
\* "/a" that is a container without attributes.
C7_Witness ==
    /\ lastOp = "addMethod"
    /\ bcast = <<[kind |-> "PATH_CHANGED", path |-> <<"/", "a", "/", "b">>]>>
    /\ _getNodeForPath(nodes, <<"/", "a", "/", "b">>) # Null
    /\ Attributes(nodes[_getNodeForPath(nodes, <<"/", "a", "/", "b">>)])
          = Opts(Undefined, Some(READWRITE), Some(<<ArgInt>>))
    /\ Attributes(nodes[_getNodeForPath(nodes, <<"/", "a">>)]) = EmptyOpts

-----------------------------------------------------------------------------
(* Properties of inbound OSC *)

\* the node the message received by the step is addressed to, before the step
Addressed == _getNodeForPath(nodes, inbound'[1].path)

\* C9: receiveOSCMessage(path, args) changes no value slot and broadcasts
\* nothing when path does not resolve to a node or the node's access is
\* undefined, NO_VALUE or READONLY; inbound OSC, from a WebSocket or from UDP,
\* changes values only on nodes whose access is WRITEONLY or READWRITE.
C9_InboundOnlyWritable ==
    [][inbound' # None =>
          /\ (\/ Addressed = Null
              \/ nodes[Addressed].access \in {None, Some(NO_VALUE), Some(READONLY)})
             => nodes' = nodes /\ bcast' = <<>> /\ sent' = NoFrames
          /\ DOMAIN nodes' = DOMAIN nodes
          /\ \A id \in DOMAIN nodes :
                nodes'[id] # nodes[id] =>
                   /\ id = Addressed
                   /\ nodes[id].access \in {Some(WRITEONLY), Some(READWRITE)}
                   /\ nodes'[id] = [nodes[id] EXCEPT !.arguments = nodes'[id].arguments]]_vars

\* C9 witness: a message with a value for a READONLY method was received while
\* re-broadcast was on and the hub running; the value slot is still unset and
\* nothing was broadcast.
C9_Witness ==
    /\ inbound # None
    /\ broadcastOpt
    /\ hubState = "running"
    /\ inbound[1].args # <<>>
    /\ _getNodeForPath(nodes, inbound[1].path) # Null
    /\ LET n == nodes[_getNodeForPath(nodes, inbound[1].path)]
       IN /\ n.access = Some(READONLY)
          /\ n.arguments = Some(<<ArgInt>>)
    /\ bcast = <<>>

\* the message received by the step is addressed to a writable node
Accepted ==
    /\ Addressed # Null
    /\ nodes[Addressed].access \in {Some(WRITEONLY), Some(READWRITE)}

\* C10: an inbound OSC message accepted by receiveOSCMessage is re-broadcast as
\* binary OSC to the WebSocket subscribers if and only if the broadcast option
\* is true; with the option false no inbound OSC message makes any frame go to
\* any client.
C10_RebroadcastIffOption ==
    [][inbound' # None =>
          /\ Accepted =>
                /\ (inbound'[1].path \in CallPaths(bcast', "OSC")) <=> broadcastOpt
                /\ \A c \in wsClients :
                      SubscriptionCovers(subscribedPaths[c], inbound'[1].path) =>
                         (sent'[c] = <<Frame("OSC", inbound'[1].path, inbound'[1].args, <<>>)>>
                            <=> broadcastOpt)
          /\ ~broadcastOpt => sent' = NoFrames /\ bcast' = <<>>]_vars

\* C10 witness: with the option on, a message from UDP for a writable method
\* has been sent on to a connected client as an OSC frame.
C10_Witness ==
    /\ inbound # None
    /\ broadcastOpt
    /\ inbound[1].from = "udp"
    /\ \E c \in wsClients :
          sent[c] = <<Frame("OSC", inbound[1].path, inbound[1].args, <<>>)>>

-----------------------------------------------------------------------------
(* SpecSend: sendValue on methods and containers, with WebSocket clients *)

\* the argument lists handed to sendValue: none, as many as are declared, one more
SendArgLists == {<<>>, <<"v1">>, <<"v1", "v1">>}

NextSend ==
    \/ \E path \in ServerPaths, params \in ServerDescs : AddMethod(path, params)
    \/ \E path \in ServerPaths, args \in SendArgLists : SendValue(path, args)
    \/ StartCreateHub
    \/ StartHub
    \/ Stop
    \/ \E c \in Clients : Connect(c)
    \/ \E c \in Clients : Disconnect(c)
    \/ \E c \in Clients, data \in SubInputs : Listen(c, data)

SpecSend == Init /\ [][NextSend]_vars

-----------------------------------------------------------------------------
(* SpecValue: sendValue and inbound OSC on methods, with a WebSocket client *)
(* that listens                                                            *)

\* a method clients may not write and one they may
ValueDescs ==
    {Opts(Undefined, Some(READONLY), Some(<<ArgInt>>)),
     Opts(Undefined, Some(READWRITE), Some(<<ArgInt>>))}

NextValue ==
    \/ \E path \in ServerPaths, params \in ValueDescs : AddMethod(path, params)
    \/ \E path \in ServerPaths, args \in SendArgLists : SendValue(path, args)
    \/ \E from \in OscSources, path \in ServerPaths, args \in ArgLists :
           ReceiveOSCMessage(from, path, args)
    \/ StartCreateHub
    \/ StartHub
    \/ Stop
    \/ \E c \in OscSources \cap Clients : Connect(c)
    \/ \E c \in OscSources \cap Clients : Disconnect(c)
    \/ \E c \in OscSources \cap Clients, data \in SubInputs : Listen(c, data)

SpecValue == Init /\ [][NextValue]_vars

\* slot i (from 0) of a node, Undefined when the node declares no such argument
Slot(n, i) ==
    IF n.arguments # None /\ i < Len(n.arguments[1])
    THEN n.arguments[1][i + 1].value
    ELSE Undefined

\* C11: sendValue(path, ...args) first assigns args[i] to slot i of the node at
\* path for every index the node declares, an index that fails stopping neither
\* the other assignments nor the broadcast, and only then broadcasts the OSC
\* message to the matching WebSocket subscribers: when the frame is sent the
\* slots hold the new values.
C11_SendValueAssignsThenBroadcasts ==
    [][lastOp' = "sendValue" =>
          \A path \in ServerPaths, args \in SendArgLists :
             SendValue(path, args) =>
                LET node == _getNodeForPath(nodes, path)
                IN /\ DOMAIN nodes' = DOMAIN nodes
                   /\ \A id \in DOMAIN nodes \ {node} : nodes'[id] = nodes[id]
                   /\ node # Null =>
                         \A i \in 0..MaxArgs :
                            Slot(nodes'[node], i) =
                               IF i < Len(args) /\ nodes[node].arguments # None
                                     /\ i < Len(nodes[node].arguments[1])
                               THEN args[i + 1]
                               ELSE Slot(nodes[node], i)
                   /\ hubState # "null" =>
                         /\ bcast' = <<[kind |-> "OSC", path |-> path,
                                        slots |-> SlotsAt(nodes', path)]>>
                         /\ \A c \in wsClients :
                               sent'[c] =
                                  IF SubscriptionCovers(subscribedPaths[c], path)
                                  THEN <<Frame("OSC", path, args, <<>>)>>
                                  ELSE <<>>
                   /\ hubState = "null" => bcast' = <<>> /\ sent' = NoFrames]_vars

\* C11 witness: sendValue with one argument more than the method declares has
\* set the declared slot and a client holds the frame with both arguments.
C11_Witness ==
    /\ lastOp = "sendValue"
    /\ \E c \in wsClients :
          sent[c] = <<Frame("OSC", <<"/", "a">>, <<"v1", "v1">>, <<>>)>>
    /\ bcast = <<[kind |-> "OSC", path |-> <<"/", "a">>,
                  slots |-> Some(Some(<<[type |-> "INT", value |-> "v1"]>>))]>>

-----------------------------------------------------------------------------
(* Properties of setValue and unsetValue *)

\* the number of arguments a node declares
Declared(n) == IF n.arguments = None THEN 0 ELSE Len(n.arguments[1])

\* C12: setValue(path, i, v) and unsetValue(path, i) on an existing node with
\* i greater than or equal to the number of declared arguments fail with
\* InvalidIndex, leave every value slot of the tree as it was and send no
\* PATH_CHANGED; with a smaller i, or without a node, they do not fail.
C12_InvalidIndexFails ==
    [][lastOp' \in {"setValue", "setValue raised", "unsetValue", "unsetValue raised"} =>
          \A path \in ServerPaths, i \in 0..1 :
             LET node == _getNodeForPath(nodes, path)
                 invalid == node # Null /\ i >= Declared(nodes[node])
             IN /\ (\E v \in Values : SetValue(path, i, v)) =>
                      /\ invalid <=> lastOp' = "setValue raised"
                      /\ invalid => nodes' = nodes /\ sent' = NoFrames /\ bcast' = <<>>
                /\ UnsetValue(path, i) =>
                      /\ invalid <=> lastOp' = "unsetValue raised"
                      /\ invalid => nodes' = nodes /\ sent' = NoFrames /\ bcast' = <<>>]_vars

\* C12 witness: setValue has failed on a node of the tree while the hub was
\* running and a client without subscriptions was connected; nothing was sent.
C12_Witness ==
    /\ lastOp = "setValue raised"
    /\ hubState = "running"
    /\ \E c \in wsClients : subscribedPaths[c] = {} /\ sent[c] = <<>>
    /\ \E id \in DOMAIN nodes : nodes[id].arguments = Some(<<[type |-> "INT", value |-> "v1"]>>)

-----------------------------------------------------------------------------
(* Properties of the hub's registry and of PATH_RENAMED *)

\* C13: broadcastPathRenamed(old, new) sends exactly one PATH_RENAMED message
\* with OLD = old and NEW = new to every registered client whose socket is
\* OPEN, whatever its subscription set holds, and to no other connection.
C13_RenamedReachesAll ==
    [][\A pair \in RenamePairs :
          BroadcastPathRenamed(pair[1], pair[2]) =>
             \A c \in Clients :
                IF c \in wsClients /\ readyState(c) = "OPEN"
                THEN /\ Len(sent'[c]) = 1
                     /\ sent'[c][1].kind = "PATH_RENAMED"
                     /\ sent'[c][1].old = pair[1]
                     /\ sent'[c][1].path = pair[2]
                ELSE sent'[c] = <<>>]_vars

\* C13 witness: the renaming of "/a" to "/ab" was sent to a client that is
\* subscribed to "/b" only.
C13_Witness ==
    /\ lastOp = "broadcastPathRenamed"
    /\ \E c \in wsClients :
          /\ subscribedPaths[c] = {<<"/", "b">>}
          /\ sent[c] = <<Frame("PATH_RENAMED", <<"/", "a", "b">>, <<>>, <<"/", "a">>)>>

\* the step is a call of one of the hub's three broadcasts
IsBroadcast(op) ==
    op \in {"broadcastPathChanged", "broadcastOSCMessage", "broadcastPathRenamed"}

\* the clients the broadcast made by the step has to write to
Eligible ==
    {c \in wsClients :
        /\ readyState(c) = "OPEN"
        /\ \/ bcast'[1].kind = "PATH_RENAMED"
           \/ SubscriptionCovers(subscribedPaths[c], bcast'[1].path)}

\* C15: when sending to a client raises during a broadcast (PATH_CHANGED,
\* PATH_RENAMED or OSC), that client leaves the registry in the same broadcast,
\* the broadcast completes, and every other eligible client is sent the message
\* exactly once.
C15_FailedSendDeregisters ==
    [][IsBroadcast(lastOp') =>
          /\ \A c \in Clients :
                IF c \in Eligible
                THEN /\ Len(sent'[c]) = 1
                     /\ sent'[c][1].kind = bcast'[1].kind
                     /\ sent'[c][1].path = bcast'[1].path
                     /\ sent'[c][1].ok <=> sock[c] = "OPEN"
                ELSE sent'[c] = <<>>
          /\ wsClients' = wsClients \ {c \in Eligible : sock[c] = "BROKEN"}]_vars

\* C15 witness: a broadcast has met a client whose send raised, removed it,
\* and delivered the message to another client.
C15_Witness ==
    /\ IsBroadcast(lastOp)
    /\ \E c \in Clients, d \in wsClients :
          /\ c \notin wsClients
          /\ Len(sent[c]) = 1 /\ ~sent[c][1].ok
          /\ Len(sent[d]) = 1 /\ sent[d][1].ok

\* the connections that are accepted and whose close or error event has not
\* been handled
Accepted_Open == {c \in Clients : sock[c] # "NONE"}

\* C16: the registry holds exactly the accepted connections that have since
\* neither closed, errored, failed a send nor been cleared by stop(): a
\* connection enters it when it is accepted and leaves it on its close or error
\* event, on a send that raises, or on stop(); nothing else changes it, and
\* getClientCount() is the number of these connections.
C16_RegistryTracksConnections ==
    [][/\ wsClients \subseteq Accepted_Open
       /\ getClientCount = Cardinality({c \in Accepted_Open : c \in wsClients})
       /\ wsClients' =
             IF lastOp' = "connect"
             THEN wsClients \cup {c \in Clients : sock[c] = "NONE" /\ sock'[c] # "NONE"}
             ELSE IF lastOp' = "disconnect"
             THEN wsClients \ {c \in Clients : sock[c] # "NONE" /\ sock'[c] = "NONE"}
             ELSE IF lastOp' = "stop" THEN {}
             ELSE IF IsBroadcast(lastOp')
             THEN wsClients \ {c \in Clients : sent'[c] # <<>> /\ ~sent'[c][1].ok}
             ELSE wsClients
       /\ wsClients' \subseteq {c \in Clients : sock'[c] # "NONE"}]_vars

\* C16 witness: of two accepted connections one has failed a send and is out
\* of the registry, the other is registered; getClientCount() is 1.
C16_Witness ==
    /\ Accepted_Open = Clients
    /\ getClientCount = 1
    /\ \E c \in Clients : c \notin wsClients /\ sock[c] = "BROKEN"

\* the frame handled by the step is a parsed message with this command and
\* a string DATA
StringCommand(frame, cmd) ==
    /\ frame.json
    /\ frame.message.COMMAND = cmd
    /\ frame.message.DATA.type = "string"

\* C14 as stated: LISTEN with a string DATA adds DATA to the sender's set,
\* IGNORE with a string DATA removes it, every other frame leaves the sets as
\* they are, and no frame changes another client's set.
C14_StringDataSubscribes ==
    [][lastOp' = "message" =>
          LET c == inbound'[1].from
              frame == inbound'[1].frame
              data == frame.message.DATA.text
          IN /\ subscribedPaths'[c] =
                   IF StringCommand(frame, "LISTEN")
                   THEN subscribedPaths[c] \cup {data}
                   ELSE IF StringCommand(frame, "IGNORE")
                   THEN subscribedPaths[c] \ {data}
                   ELSE subscribedPaths[c]
             /\ \A d \in Clients \ {c} :
                   subscribedPaths'[d] = subscribedPaths[d]]_vars

\* C14: LISTEN with a non-empty string DATA adds DATA to the sender's set and
\* IGNORE with a non-empty string DATA removes it; an empty string DATA, a
\* DATA that is not a string, any other command and a frame that is not valid
\* JSON leave every set as it is; no frame changes another client's set.
C14_NonEmptyDataSubscribes ==
    [][lastOp' = "message" =>
          LET c == inbound'[1].from
              frame == inbound'[1].frame
              data == frame.message.DATA.text
          IN /\ subscribedPaths'[c] =
                   IF StringCommand(frame, "LISTEN") /\ data # <<>>
                   THEN subscribedPaths[c] \cup {data}
                   ELSE IF StringCommand(frame, "IGNORE") /\ data # <<>>
                   THEN subscribedPaths[c] \ {data}
                   ELSE subscribedPaths[c]
             /\ \A d \in Clients \ {c} :
                   subscribedPaths'[d] = subscribedPaths[d]]_vars

\* C14 witness: a client that listens to "/a" has just sent LISTEN with the
\* empty string and its set is still {"/a"}, while the other client listens
\* to "/b".
C14_Witness ==
    /\ lastOp = "message"
    /\ StringCommand(inbound[1].frame, "LISTEN")
    /\ inbound[1].frame.message.DATA.text = <<>>
    /\ subscribedPaths[inbound[1].from] = {<<"/", "a">>}
    /\ \E d \in Clients \ {inbound[1].from} : subscribedPaths[d] = {<<"/", "b">>}

\* the last step answered a GET with this query
AnsweredGet(query) ==
    /\ response # None
    /\ response[1].method = "GET"
    /\ response[1].query = query

\* the answer is the HOST_INFO document
IsHostInfo(answer) ==
    /\ answer.status = 200
    /\ answer.body # None
    /\ answer.body[1].doc = "HOST_INFO"

\* C17: an answered GET ?HOST_INFO has LISTEN and PATH_CHANGED in EXTENSIONS
\* while the hub accepts connections, has neither before start(), after
\* stop(), before the hub is started and when the hub failed to start
\* listening, and always has the seven static extensions.
C17_ListenIffHubRunning ==
    AnsweredGet("HOST_INFO") =>
        LET ext == response[1].answer.body[1].keys
        IN /\ IsHostInfo(response[1].answer)
           /\ STATIC_EXTENSIONS \subseteq ext
           /\ hubState = "running" => {"LISTEN", "PATH_CHANGED"} \subseteq ext
           /\ hubState \in {"null", "created", "failed"} =>
                 {"LISTEN", "PATH_CHANGED"} \cap ext = {}

\* C17 witness: the standalone hub failed to start listening and a GET
\* ?HOST_INFO answered afterwards advertises LISTEN and PATH_CHANGED.
C17_FailedHubAdvertised ==
    /\ hubState = "failed"
    /\ AnsweredGet("HOST_INFO")
    /\ {"LISTEN", "PATH_CHANGED"} \subseteq response[1].answer.body[1].keys

\* the node the answered request names; Null when the path does not resolve
Requested == _getNodeForPath(nodes, response[1].pathname)

\* the answer the claim describes for GET <path>?VALUE on a node of this
\* access, with the keys the JSON object is to have
ValueAnswer(answer, access, keys) ==
    IF access \in {Some(NO_VALUE), Some(WRITEONLY)}
    THEN answer.status = 204 /\ answer.body = None
    ELSE /\ answer.status = 200
         /\ answer.body # None
         /\ answer.body[1].doc = "attribute"
         /\ answer.body[1].keys = keys

\* C18 as stated: GET <path>?VALUE on a resolved node answers 204 without a
\* body iff the node's ACCESS is 0 or 2, and for every other access state
\* answers a JSON object that has the key VALUE.
C18_ValueKeyedUnless204 ==
    AnsweredGet("VALUE") /\ Requested # Null =>
        ValueAnswer(response[1].answer, nodes[Requested].access, {"VALUE"})

\* C18: GET <path>?VALUE on a resolved node answers 204 without a body iff
\* the node's ACCESS is 0 or 2; for every other access state it answers 200
\* with a JSON object whose only key is VALUE when the node's serialization
\* has a VALUE member, and with the empty object when it has none.
C18_ValueOr204 ==
    AnsweredGet("VALUE") /\ Requested # Null =>
        ValueAnswer(response[1].answer, nodes[Requested].access,
                    IF EmitsArrays(nodes[Requested]) THEN {"VALUE"} ELSE {})

\* C18 witness: GET /a/b?VALUE on a READONLY method whose slot holds a value
\* is answered 200 with {VALUE: ...}, and the parent /a, a container without
\* ACCESS, is in the tree.
C18_Witness ==
    /\ AnsweredGet("VALUE")
    /\ response[1].pathname = <<"/", "a", "/", "b">>
    /\ Requested # Null
    /\ nodes[Requested].access = Some(READONLY)
    /\ nodes[Requested].arguments[1][1].value # Undefined
    /\ response[1].answer.status = 200
    /\ response[1].answer.body[1].keys = {"VALUE"}
    /\ nodes[_getNodeForPath(nodes, <<"/", "a">>)].access = None

\* C19: the GET handler decides in a fixed order: a query outside the
\* allowed attribute set is answered 400 for every path, resolved or not;
\* otherwise ?HOST_INFO is answered with the HOST_INFO document for every
\* path, resolved or not; only then is an unresolved path answered 404.
C19_GetDecisionOrder ==
    response # None /\ response[1].method = "GET" =>
        LET query == response[1].query
            answer == response[1].answer
        IN IF query # Undefined /\ query \notin VALID_ATTRIBUTES
           THEN answer.status = 400 /\ answer.body = None
           ELSE IF query = "HOST_INFO"
           THEN IsHostInfo(answer)
           ELSE IF Requested = Null
           THEN answer.status = 404 /\ answer.body = None
           ELSE answer.status \in {200, 204}

\* C19 witness: GET /a/b?HOST_INFO is answered with the HOST_INFO document
\* although /a/b does not resolve.
C19_Witness ==
    /\ AnsweredGet("HOST_INFO")
    /\ Requested = Null
    /\ IsHostInfo(response[1].answer)

\* a message has been encoded and the buffer decoded
Decoded == codec # None /\ codec[1].decoded # None

\* C20: for every path and every list of supported values, decoding the
\* encoder's buffer gives the same path and the same arguments in the same
\* order, and the length of the buffer is a multiple of 4.
C20_DecodeInvertsEncode ==
    Decoded =>
        /\ codec[1].decoded[1] # Null
        /\ codec[1].decoded[1].path = codec[1].path
        /\ codec[1].decoded[1].args = codec[1].args
        /\ Len(codec[1].buffer[1]) % 4 = 0

\* C20 witness: "/bar" with [4, 3.5, "x", true, null] has been encoded into
\* 28 bytes and decoded into "/bar" with [4, 3.5, "x"].
C20_ExampleLosesTail ==
    /\ Decoded
    /\ codec[1].path = <<"/", "b", "a", "r">>
    /\ codec[1].args = ExampleArgs
    /\ Len(codec[1].buffer[1]) = 28
    /\ codec[1].decoded[1].path = codec[1].path
    /\ codec[1].decoded[1].args = SubSeq(ExampleArgs, 1, 3)

\* the arguments without the booleans and nulls at the end of the list
RECURSIVE WithoutTrailingFlags(_)
WithoutTrailingFlags(args) ==
    IF args = <<>> THEN <<>>
    ELSE IF args[Len(args)].t \in {"boolean", "null"}
         THEN WithoutTrailingFlags(SubSeq(args, 1, Len(args) - 1))
    ELSE args

\* what the decoder does return: the path, and the arguments up to the last
\* one that has bytes in the buffer; the buffer is a multiple of 4 long
DecodeKeepsPayloadPrefix ==
    Decoded =>
        /\ codec[1].decoded[1] # Null
        /\ codec[1].decoded[1].path = codec[1].path
        /\ codec[1].decoded[1].args = WithoutTrailingFlags(codec[1].args)
        /\ Len(codec[1].buffer[1]) % 4 = 0

\* the bytes the tag of an argument needs in the argument section: four for
\* a number, the characters and the NUL for a string, the size and the bytes
\* for a blob, none for a boolean or null
Needs(arg) ==
    CASE arg.t = "number" -> 4
      [] arg.t = "string" -> Len(arg.s) + 1
      [] arg.t = "blob" -> 4 + Len(arg.b)
      [] OTHER -> 0

\* the index of the first argument, from i on, whose tag needs more bytes
\* than remain in a buffer of this length; Len(args) + 1 when there is none
RECURSIVE FirstTruncated(_, _, _, _)
FirstTruncated(args, i, offset, length) ==
    IF i > Len(args) THEN i
    ELSE IF offset + Needs(args[i]) > length THEN i
    ELSE FirstTruncated(args, i + 1, offset + Len(EncodeArg(args[i]).bytes), length)

\* the first truncated argument of the message that has been decoded
TruncatedAt ==
    FirstTruncated(codec[1].args, 1,
                   Len(_encodeOSCMessage(codec[1].path, <<>>))
                     + Len(Padded(Utf8(<<",">> \o TypeTag(codec[1].args)) \o <<0>>)) - 4,
                   Len(codec[1].buffer[1]))

\* C21: when a type tag needs more bytes than remain in the buffer, decoding
\* stops at that tag and returns exactly the arguments decoded before it: the
\* packet is not failed and no later tag produces an argument.
C21_TruncationReturnsPrefix ==
    Decoded /\ codec[1].cut > 0 /\ TruncatedAt <= Len(codec[1].args) =>
        /\ codec[1].decoded[1] # Null
        /\ codec[1].decoded[1].path = codec[1].path
        /\ codec[1].decoded[1].args = SubSeq(codec[1].args, 1, TruncatedAt - 1)

\* C21 witness: "/bar" with [4, true] has lost its last two bytes; the int
\* no longer fits, and the decoder has gone on to the next tag and returned
\* [true].
C21_LaterTagDecoded ==
    /\ Decoded
    /\ codec[1].cut = 2
    /\ codec[1].args = <<Num(8), Bool(TRUE)>>
    /\ TruncatedAt = 1
    /\ codec[1].decoded[1].args = <<Bool(TRUE)>>

\* the tag the claim gives a number: INT for an exact integer within the
\* int32 range, FLOAT for every other number
NumericTag(arg) == IF IsInteger(arg) /\ InInt32(arg) THEN "i" ELSE "f"

\* the type tag section of a buffer with these tags
TagSection(tags) == Padded(Utf8(<<",">> \o tags) \o <<0>>)

\* the encoder has just been called
EncoderCalled == codec # None /\ lastOp \in {"encode", "encode raised"}

\* C22: the encoder tags a number as INT, with its 4-byte big-endian int32,
\* when it is an exact integer within the int32 range and as FLOAT otherwise,
\* integers outside the int32 range included; the call returns a buffer and
\* does not fail.
C22_IntOrFloatNeverFails ==
    EncoderCalled =>
        LET args == codec[1].args
            tags == [i \in 1..Len(args) |-> NumericTag(args[i])]
            start == Len(Padded(Utf8(codec[1].path) \o <<0>>))
        IN /\ lastOp = "encode"
           /\ codec[1].buffer # None
           /\ SubSeq(codec[1].buffer[1], start + 1, start + Len(TagSection(tags)))
                 = TagSection(tags)
           /\ Len(codec[1].buffer[1]) = start + Len(TagSection(tags)) + 4 * Len(args)
           /\ \A i \in 1..Len(args) :
                 tags[i] = "i" =>
                    readInt32BE(codec[1].buffer[1],
                                start + Len(TagSection(tags)) + 4 * (i - 1))
                      = IntValue(args[i])

\* C22 witness: the encoder was called with "/bar" and [2147483648] and threw
\* instead of returning a buffer.
C22_BigIntegerRaises ==
    /\ codec # None
    /\ lastOp = "encode raised"
    /\ codec[1].args = <<NumScaled(4, 30)>>
    /\ codec[1].buffer = None

\* what the encoder does for numbers: whenever it returns, every integer has
\* the tag INT and its int32 bytes and every other number the tag FLOAT; it
\* throws exactly when some integer is outside the int32 range
EncoderOnNumbers ==
    EncoderCalled =>
        LET args == codec[1].args
            tags == [i \in 1..Len(args) |-> IF IsInteger(args[i]) THEN "i" ELSE "f"]
            start == Len(Padded(Utf8(codec[1].path) \o <<0>>))
        IN IF \E i \in 1..Len(args) : IsInteger(args[i]) /\ ~InInt32(args[i])
           THEN lastOp = "encode raised" /\ codec[1].buffer = None
           ELSE /\ lastOp = "encode"
                /\ SubSeq(codec[1].buffer[1], start + 1, start + Len(TagSection(tags)))
                      = TagSection(tags)
                /\ \A i \in 1..Len(args) :
                      tags[i] = "i" =>
                         readInt32BE(codec[1].buffer[1],
                                     start + Len(TagSection(tags)) + 4 * (i - 1))
                           = IntValue(args[i])

\* C23: start() resolves only when the HTTP listener is listening, the hub
\* has started, the OSC UDP listener (when the transport is UDP) is bound and
\* the mDNS advertisement has completed; in attached mode the hub is started
\* only after the HTTP listener is ready.
C23_StartResolvesWhenAllReady ==
    [][/\ life.startP # "resolved" /\ life'.startP = "resolved" =>
             /\ life.http = "listening"
             /\ hubState = "running"
             /\ life.udp => life.osc = "bound"
             /\ life.mdns = "advertised"
       /\ life.mode = "attached" /\ hubState # "running" /\ hubState' = "running" =>
             life.http = "listening"]_vars

\* C23 witness: start() of an attached server with a UDP listener has
\* resolved.
C23_Witness ==
    /\ life.startP = "resolved"
    /\ life.mode = "attached"
    /\ life.udp
    /\ lastOp = "started"

\* one of the three ports could not be bound
BindFailed == life.http = "failed" \/ hubState = "failed" \/ life.osc = "failed"

\* C24: if the HTTP port, the standalone WebSocket port or the OSC UDP port
\* cannot be bound, start() rejects: it does not resolve and does not stay
\* pending forever.
C24_BindFailureRejects ==
    /\ [](BindFailed => life.startP # "resolved")
    /\ BindFailed ~> life.startP = "rejected"

\* C24 witness: the OSC UDP port could not be bound; the HTTP listener is
\* listening, the hub runs, the advertisement is out, and start() is pending
\* with nothing left that could settle it.
C24_PendingForever ==
    /\ life.osc = "failed"
    /\ life.startP = "pending"
    /\ life.http = "listening"
    /\ hubState = "running"
    /\ life.mdns = "advertised"

\* what start() does on a bind failure: it never resolves, and it rejects
\* when the port is the standalone hub's
StandaloneHubFailureRejects ==
    /\ [](BindFailed => life.startP # "resolved")
    /\ hubState = "failed" ~> life.startP = "rejected"

-----------------------------------------------------------------------------
(* Properties of the discovery *)

\* the keys a reported service stands for, one for each of its addresses
KeysOf(service) ==
    IF service.addresses = None THEN {}
    ELSE {_getServiceKey(service.addresses[1][i], service.port) :
             i \in 1..Len(service.addresses[1])}

\* how many events of one kind a list holds for a key
Count(events, ev, key) ==
    Cardinality({i \in 1..Len(events) :
                    events[i].ev = ev /\ events[i].service.key = key})

\* the keys of the services a browser can report
AllKeys == UNION {KeysOf(service) : service \in Announcements}

\* C26: within one MDNSDiscovery session a report of a service of the
\* configured protocol emits "up" exactly once for each of its (address,
\* port) keys that is not tracked and nothing for a key that is; a removal
\* emits "down" exactly once for each of its keys that is tracked, nothing
\* for any other, and the key is retired; and getServices() holds exactly
\* the keys that have gone up and not yet down.
C26_UpOncePerKey ==
    [][/\ lastOp' = "browser up" =>
            \A key \in AllKeys :
               /\ Count(disc'.mdnsEmitted, "down", key) = 0
               /\ Count(disc'.mdnsEmitted, "up", key) =
                     IF /\ disc'.call[1].protocol = "tcp"
                        /\ key \in KeysOf(disc'.call[1])
                        /\ key \notin disc.live
                     THEN 1 ELSE 0
       /\ lastOp' = "browser down" =>
            \A key \in AllKeys :
               /\ Count(disc'.mdnsEmitted, "up", key) = 0
               /\ Count(disc'.mdnsEmitted, "down", key) =
                     IF key \in KeysOf(disc'.call[1]) /\ key \in disc.live
                     THEN 1 ELSE 0
               /\ key \in KeysOf(disc'.call[1]) =>
                     \A s \in disc'.mdns : s.key # key
       /\ lastOp' \in {"browser up", "browser down"} =>
            {s.key : s \in disc'.mdns} = disc'.live
      ]_vars

\* C26 witness: a service whose only key is tracked is reported again, and
\* nothing is emitted
C26_Witness ==
    /\ lastOp = "browser up"
    /\ disc.call[1].protocol = "tcp"
    /\ KeysOf(disc.call[1]) # {}
    /\ KeysOf(disc.call[1]) \subseteq disc.live
    /\ disc.mdnsEmitted = <<>>

\* C26: a key that was retired goes up again with the next report
C26_UpAgain ==
    [][(/\ lastOp = "browser down"
        /\ lastOp' = "browser up"
        /\ disc'.call = disc.call
        /\ disc'.call[1].protocol = "tcp")
       => \A key \in KeysOf(disc.call[1]) :
             Count(disc'.mdnsEmitted, "up", key) = 1]_vars

\* the DiscoveredServices of an address and port, tracked or being queried
ServicesOf(d, address, port) ==
    {i \in 1..Len(d.services) :
        d.services[i].address = address /\ d.services[i].port = port}

QueriesOf(d, address, port) ==
    {i \in 1..Len(d.fetches) :
        d.fetches[i].address = address /\ d.fetches[i].port = port}

\* C27: whenever MDNSDiscovery reports "down" for an (address, port) for
\* which a DiscoveredService exists, tracked or still being fetched,
\* OSCQueryDiscovery emits "down" with a DiscoveredService of that address
\* and port and tracks none of that address and port after the step; and no
\* service whose last report was "down" is tracked after any later step.
C27_DownEmittedAndRetired ==
    [][/\ lastOp' = "browser down" =>
            \A i \in 1..Len(disc'.mdnsEmitted) :
               LET info == disc'.mdnsEmitted[i].service
               IN  (ServicesOf(disc, info.address, info.port)
                       \cup QueriesOf(disc, info.address, info.port) # {})
                   => /\ \E j \in 1..Len(disc'.emitted) :
                            /\ disc'.emitted[j].ev = "down"
                            /\ disc'.emitted[j].service.address = info.address
                            /\ disc'.emitted[j].service.port = info.port
                      /\ ServicesOf(disc', info.address, info.port) = {}
       /\ \A i \in 1..Len(disc'.services) :
             _getServiceKey(disc'.services[i].address, disc'.services[i].port)
                \notin disc'.downed
      ]_vars

\* C27 witness: the query of a service ended after MDNSDiscovery reported the
\* service down; the service is tracked, and nothing will remove it
C27_StaleService ==
    /\ lastOp = "query done"
    /\ disc.running
    /\ \E i \in 1..Len(disc.services) :
          _getServiceKey(disc.services[i].address, disc.services[i].port)
             \in disc.downed

\* a service that is tracked when MDNSDiscovery reports it down is emitted
\* with "down" and removed
TrackedDownEmitted ==
    [][lastOp' = "browser down" =>
          \A i \in 1..Len(disc'.mdnsEmitted) :
             LET info == disc'.mdnsEmitted[i].service
             IN  ServicesOf(disc, info.address, info.port) # {}
                 => /\ \E j \in 1..Len(disc'.emitted) :
                          /\ disc'.emitted[j].ev = "down"
                          /\ disc'.emitted[j].service.address = info.address
                          /\ disc'.emitted[j].service.port = info.port
                    /\ Len(disc'.services) = Len(disc.services) - 1
      ]_vars

\* the announcements of the last report that the client has to query: under
\* the claim every IPv4 one, in the code those with a port other than 0
Queried(info, anyPort) ==
    isIPv4(info.address) /\ (anyPort \/ info.port # 0)

\* the outcome of a report of the browser for the client: a query starts for
\* each announcement to be queried and for no other, nothing is emitted and
\* nothing is added
ReportOutcome(anyPort) ==
    /\ \A i \in 1..Len(disc'.mdnsEmitted) :
          LET info == disc'.mdnsEmitted[i].service
          IN  Cardinality(QueriesOf(disc', info.address, info.port)) =
                 Cardinality(QueriesOf(disc, info.address, info.port))
                    + (IF Queried(info, anyPort) THEN 1 ELSE 0)
    /\ Len(disc'.fetches) =
          Len(disc.fetches)
             + Cardinality({i \in 1..Len(disc'.mdnsEmitted) :
                               Queried(disc'.mdnsEmitted[i].service, anyPort)})
    /\ disc'.emitted = <<>>
    /\ disc'.services = disc.services

\* the outcome of an answer to a query: the first answer of two emits
\* nothing; the query ends with exactly one event, "up" with the service
\* loaded and added when both requests were answered and both bodies could
\* be deserialized, "error" with nothing added otherwise
AnswerOutcome ==
    LET fetch == disc'.call[1].fetch
        data == disc'.call[1].data
        loaded == Discovered(fetch, "loaded", "loaded")
    IN  IF fetch.stage = "base" /\ data # "rejected"
        THEN /\ disc'.emitted = <<>>
             /\ disc'.services = disc.services
             /\ Len(disc'.fetches) = Len(disc.fetches)
        ELSE /\ Len(disc'.fetches) = Len(disc.fetches) - 1
             /\ Len(disc'.emitted) = 1
             /\ IF fetch.base = "tree" /\ data = "hostInfo"
                THEN /\ disc'.emitted = <<Event("up", loaded)>>
                     /\ disc'.services = Append(disc.services, loaded)
                ELSE /\ disc'.emitted[1].ev = "error"
                     /\ disc'.services = disc.services

\* every tracked service has hostInfo and nodes loaded
AllLoaded(d) ==
    \A i \in 1..Len(d.services) :
       d.services[i].hostInfo = "loaded" /\ d.services[i].nodes = "loaded"

\* C28 as claimed: every IPv4 announcement starts one query, which ends with
\* exactly one of "up" (fetches and parse succeeded, the service is tracked
\* and loaded) or "error" (nothing added); an IPv6 announcement starts
\* nothing and emits nothing; every tracked service is loaded.
C28_EveryIPv4Queried ==
    [][/\ lastOp' = "browser up" => ReportOutcome(TRUE)
       /\ lastOp' \in {"base fetched", "query failed", "query done"}
             => AnswerOutcome
       /\ AllLoaded(disc')]_vars

\* C28 amended: every IPv4 announcement with a port other than 0 starts one
\* query, which ends with exactly one of "up" or "error" as above; an IPv6
\* announcement and one with port 0 start nothing and emit nothing; every
\* tracked service is loaded.
C28_IPv4WithPortQueried ==
    [][/\ lastOp' = "browser up" => ReportOutcome(FALSE)
       /\ lastOp' \in {"base fetched", "query failed", "query done"}
             => AnswerOutcome
       /\ AllLoaded(disc')]_vars

\* C28 witness: the query of an announced IPv4 service ended with "up" and
\* the loaded service is tracked
C28_Witness ==
    /\ lastOp = "query done"
    /\ Len(disc.emitted) = 1
    /\ disc.emitted[1].ev = "up"
    /\ isIPv4(disc.emitted[1].service.address)
    /\ disc.services # <<>>
    /\ disc.services[Len(disc.services)] = disc.emitted[1].service
    /\ AllLoaded(disc)

\* an IPv4 service is announced with port 0: it is reported by
\* MDNSDiscovery and no query starts
C28_PortZeroIgnored ==
    /\ lastOp = "browser up"
    /\ Len(disc.mdnsEmitted) = 1
    /\ isIPv4(disc.mdnsEmitted[1].service.address)
    /\ disc.mdnsEmitted[1].service.port = 0
    /\ disc.fetches = <<>>

-----------------------------------------------------------------------------
(* Properties of the type-string parser *)

\* a text without the characters that are neither a tag nor a bracket
KnownOnly(text) ==
    SelectSeq(text, LAMBDA c : c \in DOMAIN OSCTypeSimpleMap \cup {"[", "]"})

\* the index of the "[" at depth 0 that is never closed, 0 when there is none
RECURSIVE UnclosedFrom(_, _, _, _)
UnclosedFrom(text, i, depth, open) ==
    IF i > Len(text) THEN (IF depth > 0 THEN open ELSE 0)
    ELSE IF text[i] = "["
    THEN UnclosedFrom(text, i + 1, depth + 1, IF depth = 0 THEN i ELSE open)
    ELSE IF text[i] = "]" /\ depth > 0
    THEN UnclosedFrom(text, i + 1, depth - 1, open)
    ELSE UnclosedFrom(text, i + 1, depth, open)

Unclosed(text) == UnclosedFrom(text, 1, 0, 0)

\* the depth of the nesting of a type list
RECURSIVE Nesting(_)
Nesting(types) ==
    IF types = <<>> THEN 0
    ELSE LET first == IF Head(types).t = "array"
                      THEN 1 + Nesting(Head(types).of) ELSE 0
             rest == Nesting(Tail(types))
         IN  IF first > rest THEN first ELSE rest

\* C30: parsing the reconstructed TYPE string of a type list yields the type
\* list, with the same nesting; parsing a text yields what parsing the text
\* without its unknown characters yields; and parsing a text with a "[" that
\* is never closed yields what parsing the text before that "[" yields.
C30_ParseInvertsReconstruction ==
    (lastOp = "parse type") =>
       /\ parse.input # None => parse.output = parse.input
       /\ parse.output[1] = parseTypeString(KnownOnly(parse.text[1]))
       /\ Unclosed(parse.text[1]) > 0 =>
             parse.output[1] =
                parseTypeString(SubSeq(parse.text[1], 1,
                                       Unclosed(parse.text[1]) - 1))

\* C30 witness: a type list of two types, one of them an array in an array,
\* came back from the parser
C30_Witness ==
    /\ lastOp = "parse type"
    /\ parse.input # None
    /\ Nesting(parse.input[1]) = 2
    /\ Len(parse.input[1]) = 2
    /\ parse.output = parse.input

\* a text with an unknown character and an array that is never closed after
\* a tag has been parsed: the tag alone is returned
C30_UnclosedDiscarded ==
    /\ lastOp = "parse type"
    /\ parse.text = Some(<<"i", "[", "x", "i">>)
    /\ parse.output = Some(<<Simple("INT")>>)

-----------------------------------------------------------------------------
(* Properties of the wire form of a node *)

\* the nodes of a tree: the node and those below it
RECURSIVE NodesOf(_)
NodesOf(n) ==
    {n} \cup UNION {NodesOf(n.children[k]) : k \in 1..Len(n.children)}

\* C29: deserializing the serialization of a server tree yields a tree
\* whose nodes are equal to those of the server in name, access,
\* description, tags, critical and arguments (type, range, clipmode, value),
\* for every access, NO_VALUE among them, and recursively for the children.
C29_DeserializeInvertsSerialize ==
    (lastOp = "deserialize") => parse.output = parse.input

\* C29 witness: a tree came back from the deserializer with its root, whose
\* access is NO_VALUE on every server, without access, and with the value
\* null on an argument whose value is not set
C29_NoValueAndNullValue ==
    /\ lastOp = "deserialize"
    /\ parse.input[1].access = Some(NO_VALUE)
    /\ parse.output[1].access = None
    /\ \E k \in 1..Len(parse.input[1].children) :
          LET n == parse.input[1].children[k]
              d == parse.output[1].children[k]
          IN  /\ n.arguments # None
              /\ n.access = Some(READWRITE)
              /\ d.access = Some(READWRITE)
              /\ \E i \in 1..Len(n.arguments[1]) :
                    /\ n.arguments[1][i].value = JsUndefined
                    /\ d.arguments[1][i].value = JsNull

\* a node as the deserializer returns it when all else is kept: no access
\* for NO_VALUE, null for a value that is not set among arguments with a
\* value, a range or a clipmode
RECURSIVE AsDeserialized(_)
AsDeserialized(n) ==
    [n EXCEPT
       !.access = IF @ = Some(NO_VALUE) THEN None ELSE @,
       !.arguments =
          IF EmitsArraysOf(n)
          THEN Some([i \in 1..Len(@[1]) |->
                        [@[1][i] EXCEPT
                           !.value = IF @ = JsUndefined THEN JsNull ELSE @]])
          ELSE @,
       !.children = [k \in 1..Len(@) |-> AsDeserialized(@[k])]]

\* the deserializer loses nothing but the access NO_VALUE and the absence of
\* a value
OnlyAccessAndValueDiffer ==
    (lastOp = "deserialize") => parse.output[1] = AsDeserialized(parse.input[1])

\* C39: the tracked set of the discovery client never holds two
\* DiscoveredServices of the same address and port.
C39_OneServicePerKey ==
    \A i, j \in 1..Len(disc.services) :
       (/\ disc.services[i].address = disc.services[j].address
        /\ disc.services[i].port = disc.services[j].port) => i = j

\* C39 witness: the service was reported up, down and up again while its
\* first query was under way (MDNSDiscovery tracks it once); both queries
\* ended and the tracked set holds two DiscoveredServices of the one key
C39_TrackedTwice ==
    /\ lastOp = "query done"
    /\ disc.running
    /\ Len(disc.services) = 2
    /\ disc.services[1].address = disc.services[2].address
    /\ disc.services[1].port = disc.services[2].port
    /\ _getServiceKey(disc.services[1].address, disc.services[1].port)
          \in disc.live

\* C40: between a stop() of the discovery and the next start() no "up" is
\* emitted and no service is added to the tracked set, whatever becomes of
\* the queries that were under way.
C40_NothingAfterStop ==
    [][(~disc.running /\ ~disc'.running) =>
          /\ \A i \in 1..Len(disc'.emitted) : disc'.emitted[i].ev # "up"
          /\ disc'.services = disc.services]_vars

\* C40 witness: the discovery is stopped, and a query that was under way at
\* the stop has ended with "up" and its service in the tracked set
C40_UpAfterStop ==
    /\ lastOp = "query done"
    /\ ~disc.running
    /\ Len(disc.emitted) = 1
    /\ disc.emitted[1].ev = "up"
    /\ disc.services # <<>>
    /\ disc.services[Len(disc.services)] = disc.emitted[1].service

-----------------------------------------------------------------------------
(* Properties of the re-broadcast of inbound OSC *)

\* C33: with the broadcast option on, an OSC message that arrives from a
\* WebSocket client is not sent back to that client: the step hands the
\* sender's socket no frame.
C33_NoEchoToSender ==
    [][(/\ inbound' # None
        /\ broadcastOpt
        /\ inbound'[1].from \in wsClients)
          => sent'[inbound'[1].from] = <<>>]_vars

\* C33: client A, registered and subscribed to nothing, has sent an OSC
\* message for a writable method and has been handed that same message as an
\* OSC frame by the re-broadcast.
C33_EchoedToSender ==
    /\ lastOp = "receiveOSCMessage"
    /\ inbound # None
    /\ broadcastOpt
    /\ inbound[1].from = "A"
    /\ "A" \in wsClients
    /\ sent["A"] = <<Frame("OSC", inbound[1].path, inbound[1].args, <<>>)>>

-----------------------------------------------------------------------------
(* Properties of the frames of sendValue and receiveOSCMessage *)

\* a node but for the values of its arguments
WithoutValues(n) ==
    [n EXCEPT !.arguments =
        IF @ = None THEN None
        ELSE Some([i \in 1..Len(@[1]) |-> [@[1][i] EXCEPT !.value = Undefined]])]

\* the step changed nothing of the tree but values of arguments
OnlyValueSlotsChange ==
    /\ DOMAIN nodes' = DOMAIN nodes
    /\ \A id \in DOMAIN nodes : WithoutValues(nodes'[id]) = WithoutValues(nodes[id])

\* every frame handed to a socket and every broadcast made by the step is a
\* binary OSC message
OnlyOSCFrames ==
    /\ \A c \in Clients : \A i \in 1..Len(sent'[c]) : sent'[c][i].kind = "OSC"
    /\ \A i \in 1..Len(bcast') : bcast'[i].kind = "OSC"

\* C37: sendValue and receiveOSCMessage change nothing of the tree but value
\* slots and send no PATH_CHANGED: every frame they cause is a binary OSC
\* broadcast; sendValue on a path without a node leaves the tree as it was and
\* still broadcasts the OSC frame, to every client whose subscriptions cover
\* the path.
C37_ValueSlotsWithoutPathChanged ==
    [][lastOp' \in {"sendValue", "receiveOSCMessage"} =>
          /\ OnlyValueSlotsChange
          /\ OnlyOSCFrames
          /\ \A path \in ServerPaths, args \in SendArgLists :
                (SendValue(path, args) /\ _getNodeForPath(nodes, path) = Null) =>
                   /\ nodes' = nodes
                   /\ hubState # "null" =>
                         /\ CallPaths(bcast', "OSC") = {path}
                         /\ \A c \in wsClients :
                               SubscriptionCovers(subscribedPaths[c], path) =>
                                  sent'[c] = <<Frame("OSC", path, args, <<>>)>>]_vars

\* C37 witness: sendValue("/a/b", v1) on a tree without a node at "/a/b" has
\* handed the OSC frame to a connected client.
C37_Witness ==
    /\ lastOp = "sendValue"
    /\ _getNodeForPath(nodes, <<"/", "a", "/", "b">>) = Null
    /\ CallPaths(bcast, "OSC") = {<<"/", "a", "/", "b">>}
    /\ \E c \in wsClients :
          sent[c] = <<Frame("OSC", <<"/", "a", "/", "b">>, <<"v1">>, <<>>)>>

\* C37 witness of the other half: an inbound message has set the value slot of
\* a writable method and the step made OSC frames only.
C37_InboundSetSlot ==
    /\ lastOp = "receiveOSCMessage"
    /\ inbound # None
    /\ _getNodeForPath(nodes, inbound[1].path) # Null
    /\ Slot(nodes[_getNodeForPath(nodes, inbound[1].path)], 0) = "v1"
    /\ \E c \in wsClients : sent[c] # <<>>

-----------------------------------------------------------------------------
(* Properties of what removeMethod leaves alone *)

\* the node id lies on the walk from the root to the node target
OnPathTo(id, target) ==
    Len(id) <= Len(target) /\ SubSeq(target, 1, Len(id)) = id

\* a node but for its set of children
WithoutChildren(n) == [n EXCEPT !.children = EmptyChildren]

\* what removeMethod(path) may do to the tree when path resolves to target
RemovalFrame(target) ==
    /\ \A id \in DOMAIN nodes :
          ~OnPathTo(id, target) => id \in DOMAIN nodes' /\ nodes'[id] = nodes[id]
    /\ \A id \in DOMAIN nodes \ DOMAIN nodes' :
          /\ OnPathTo(id, target)
          /\ id # RootId
          /\ id # target => Bare(nodes[id])
          /\ \A seg \in DOMAIN nodes[id].children :
                nodes[id].children[seg] \notin DOMAIN nodes'
    /\ \A id \in DOMAIN nodes \cap DOMAIN nodes' :
          /\ WithoutChildren(nodes'[id]) =
                WithoutChildren(IF id = target THEN Cleared(nodes[id]) ELSE nodes[id])
          /\ DOMAIN nodes'[id].children \subseteq DOMAIN nodes[id].children
          /\ \A seg \in DOMAIN nodes'[id].children :
                nodes'[id].children[seg] = nodes[id].children[seg]
          /\ \A seg \in DOMAIN nodes[id].children \ DOMAIN nodes'[id].children :
                nodes[id].children[seg] \notin DOMAIN nodes'
    /\ DOMAIN nodes' \subseteq DOMAIN nodes

\* C38: removeMethod(p) on a path that resolves clears the target's attributes
\* and otherwise changes no node off the walk from the root to p, and every
\* node it detaches lies on that walk, lost all its children and, unless it is
\* the target, had no access value, arguments or other attribute; on a path
\* that does not resolve it leaves the tree as it was and makes no broadcast.
C38_RemoveFrame ==
    [][lastOp' = "removeMethod" =>
          \A path \in PathInputs :
             RemoveMethod(path) =>
                IF _getNodeForPath(nodes, path) = Null
                THEN nodes' = nodes /\ bcast' = <<>> /\ sent' = NoFrames
                ELSE RemovalFrame(_getNodeForPath(nodes, path))]_vars

\* C38 witness: removeMethod("/a/b") has detached "/a/b" and announced its
\* parent, while the sibling "/a/a" and so the parent "/a" are still there.
C38_Witness ==
    /\ lastOp = "removeMethod"
    /\ Len(bcast) = 2
    /\ bcast[1].path = <<"/", "a">>
    /\ bcast[2].path = <<"/", "a", "/", "b">>
    /\ _getNodeForPath(nodes, <<"/", "a", "/", "a">>) # Null
    /\ _getNodeForPath(nodes, <<"/", "a", "/", "b">>) = Null

\* C38 witness of the second half: removeMethod on a path without a node has
\* made no broadcast.
C38_UnresolvedQuiet ==
    /\ lastOp = "removeMethod"
    /\ bcast = <<>>
    /\ DOMAIN nodes # {RootId}

-----------------------------------------------------------------------------
(* Properties of the empty subscription set *)

\* the step is a hub broadcast of kind and path that hands client c exactly
\* the one frame of that broadcast
HandedBroadcast(c) ==
    /\ \A path \in HubPaths :
          BroadcastPathChanged(path) =>
             sent'[c] = <<Frame("PATH_CHANGED", path, <<>>, <<>>)>>
    /\ \A path \in HubPaths, args \in ArgLists :
          BroadcastOSCMessage(path, args) =>
             sent'[c] = <<Frame("OSC", path, args, <<>>)>>

\* C35: a connection starts with an empty subscription set; an IGNORE that
\* names the only path of a client's set leaves the set empty; and every
\* PATH_CHANGED and OSC broadcast is handed to every registered client whose
\* set is empty and whose socket is open, whether the set has never held a
\* path or has been emptied by IGNORE.
C35_EmptySetReceivesAll ==
    [][\A c \in Clients :
          /\ Connect(c) => subscribedPaths'[c] = {} /\ c \in wsClients'
          /\ \A data \in SubInputs :
                (Ignore(c, data) /\ subscribedPaths[c] = {data}) =>
                   subscribedPaths'[c] = {} /\ wsClients' = wsClients
          /\ (/\ lastOp' \in {"broadcastPathChanged", "broadcastOSCMessage"}
              /\ c \in wsClients
              /\ sock[c] = "OPEN"
              /\ subscribedPaths[c] = {})
                => HandedBroadcast(c)]_vars

\* C35 witness: a broadcast of "/a/b/c" has been handed to a client with an
\* empty subscription set and kept from a client, registered and open, that
\* listens to "/b".
C35_Witness ==
    /\ lastOp \in {"broadcastPathChanged", "broadcastOSCMessage"}
    /\ \E c \in wsClients, d \in wsClients :
          /\ subscribedPaths[c] = {}
          /\ sock[c] = "OPEN"
          /\ Len(sent[c]) = 1
          /\ sent[c][1].path = <<"/", "a", "/", "b", "/", "c">>
          /\ sent[c][1].ok
          /\ subscribedPaths[d] = {<<"/", "b">>}
          /\ sock[d] = "OPEN"
          /\ sent[d] = <<>>

\* C35 witness of the IGNORE half: an IGNORE has left a registered client
\* with an empty subscription set.
C35_IgnoredLast ==
    /\ lastOp = "IGNORE"
    /\ \E c \in wsClients : subscribedPaths[c] = {} /\ sock[c] = "OPEN"

-----------------------------------------------------------------------------
(* Properties of a subscription to the root path *)

\* C34: a registered client with an open socket whose subscription set holds
\* the root path "/" is handed the frame of every PATH_CHANGED and every
\* binary OSC broadcast, whatever the path.
C34_RootSubscriberGetsAll ==
    [][\A c \in Clients :
          (/\ c \in wsClients
           /\ sock[c] = "OPEN"
           /\ <<"/">> \in subscribedPaths[c])
             => /\ \A path \in RootPaths :
                      BroadcastPathChanged(path) =>
                         sent'[c] = <<Frame("PATH_CHANGED", path, <<>>, <<>>)>>
                /\ \A path \in RootPaths, args \in ArgLists :
                      BroadcastOSCMessage(path, args) =>
                         sent'[c] = <<Frame("OSC", path, args, <<>>)>>]_vars

\* C34: a broadcast of "/a" has been handed to a client with an empty
\* subscription set and not to a client, registered and open, whose set is
\* {"/"}.
C34_RootSubscriberSkipped ==
    /\ lastOp \in {"broadcastPathChanged", "broadcastOSCMessage"}
    /\ \E c \in wsClients, d \in wsClients :
          /\ subscribedPaths[c] = {<<"/">>}
          /\ sock[c] = "OPEN"
          /\ sent[c] = <<>>
          /\ subscribedPaths[d] = {}
          /\ Len(sent[d]) = 1
          /\ sent[d][1].path = <<"/", "a">>

-----------------------------------------------------------------------------
(* Properties of the path a mutator announces *)

\* the step is a mutator call on path that returns and finds something to do
SpelledMutator(path) ==
    \/ \E params \in ServerDescs : AddMethod(path, params)
    \/ /\ _getNodeForPath(nodes, path) # Null
       /\ \/ RemoveMethod(path)
          \/ \E i \in 0..1, v \in Values : SetValue(path, i, v) /\ lastOp' = "setValue"
          \/ \E i \in 0..1 : UnsetValue(path, i) /\ lastOp' = "unsetValue"

\* C36: whatever spelling of "/a/b" a mutator is called with, every
\* PATH_CHANGED it broadcasts names a canonical path (leading slash, no empty
\* segment), the path of the affected node among them, and a registered client
\* with an open socket that listens to "/a/b" is handed a PATH_CHANGED frame.
C36_CanonicalPathAnnounced ==
    [][\A path \in SpellPaths :
          (hubState # "null" /\ SpelledMutator(path)) =>
             /\ \A i \in 1..Len(bcast') :
                   bcast'[i].path = CanonicalPath(Split(bcast'[i].path))
             /\ CanonicalPath(Split(path)) \in CallPaths(bcast', "PATH_CHANGED")
             /\ \A c \in wsClients :
                   (sock[c] = "OPEN" /\ subscribedPaths[c] = {CanonicalPath(Split(path))})
                      => FramePaths(sent'[c], "PATH_CHANGED") # {}]_vars

\* C36: addMethod("/a//b") has announced "/a//b" and the client listening to
\* "/a/b", registered and open, has been handed nothing.
C36_SpellingAnnounced ==
    /\ lastOp = "addMethod"
    /\ bcast = <<[kind |-> "PATH_CHANGED", path |-> <<"/", "a", "/", "/", "b">>]>>
    /\ _getNodeForPath(nodes, <<"/", "a", "/", "b">>) # Null
    /\ \E c \in wsClients :
          /\ sock[c] = "OPEN"
          /\ subscribedPaths[c] = {<<"/", "a", "/", "b">>}
          /\ sent[c] = <<>>

-----------------------------------------------------------------------------
(* Properties of the moment a mutator's PATH_CHANGED is sent *)

\* the step hands a PATH_CHANGED frame to the socket of some client
HandsPathChanged ==
    \E c \in Clients : FramePaths(sent'[c], "PATH_CHANGED") # {}

\* C31: a PATH_CHANGED caused by addMethod, removeMethod, setValue or
\* unsetValue is handed to a client socket only once the mutator has returned
\* to its caller: no step taken while a mutator call is under way hands a
\* PATH_CHANGED frame to a socket.
C31_SentAfterReturn ==
    [][HandsPathChanged => call = None]_vars

\* C31: removeMethod("/a/b") is in its loop, has detached "/a/b" and handed
\* PATH_CHANGED "/a" to a client, and is about to detach "/a" as well.
C31_SentMidRemoval ==
    /\ call # None
    /\ call[1].op = "removeMethod"
    /\ call[1].pc = "loop"
    /\ LoopCondition(nodes, call[1].node)
    /\ _getPathForNode(nodes, call[1].node) = <<"/", "a">>
    /\ \E c \in wsClients :
          FramePaths(sent[c], "PATH_CHANGED") = {<<"/", "a">>}

\* when a mutator is about to return, the tree is the one the mutator as a
\* whole makes of the tree it was called on
CallAgreesWithMutator ==
    (call # None /\ call[1].pc = "return") =>
        LET w == [World EXCEPT !.nodes = call[1].entry]
        IN CASE call[1].op = "removeMethod" ->
                   nodes = removeMethod(w, call[1].path).nodes
             [] call[1].op = "addMethod" ->
                   \E params \in ServerDescs :
                      nodes = addMethod(w, call[1].path, params).nodes
             [] OTHER ->
                   \E i \in 0..1 :
                      nodes \in {serverSetValue(w, call[1].path, i, v).w.nodes : v \in Values}
                                   \cup {serverUnsetValue(w, call[1].path, i).w.nodes}

-----------------------------------------------------------------------------
(* Properties of the classification of inbound frames *)

\* the first byte of the frame is "/" (0x2F) or "#" (0x23)
StartsAsOSC(data) == Len(data) > 0 /\ data[1] \in {47, 35}

\* a binary frame the decoder accepts: four bytes at least and a zero byte
\* to end the address
Decodable(data) == Len(data) >= 4 /\ \E i \in 1..Len(data) : data[i] = 0

\* the frame cannot be decoded or parsed
Unreadable(frame) ==
    IF StartsAsOSC(frame.data) THEN ~Decodable(frame.data) ELSE ~frame.json

\* C32: a frame whose first byte is "/" or "#" is handled as binary OSC: when
\* it decodes, the decoded path and arguments are passed once to
\* receiveOSCMessage, whose effect is the whole effect of the frame, and no
\* subscription set changes; every other frame is handled as a JSON command:
\* receiveOSCMessage is not called, the tree keeps its state and only the
\* sender's subscription set follows the command; a frame that cannot be
\* decoded or parsed changes neither the tree nor any subscription set, sends
\* nothing and leaves the registry of clients as it was.
C32_FrameClassification ==
    [][\A c \in Clients, frame \in WireFrames :
          (/\ lastOp' = "frame"
           /\ inbound'[1].from = c
           /\ inbound'[1].data = frame.data
           /\ HandleFrame(c, frame)) =>
             /\ StartsAsOSC(frame.data) =>
                   /\ subscribedPaths' = subscribedPaths
                   /\ Decodable(frame.data) =>
                         /\ inbound'[1].calls = <<_decodeOSCMessage(frame.data)>>
                         /\ LET m == _decodeOSCMessage(frame.data)
                                w == receiveOSCMessage(World, m.path, m.args)
                            IN /\ nodes' = w.nodes
                               /\ sent' = w.sent
                               /\ wsClients' = w.clients
             /\ ~StartsAsOSC(frame.data) =>
                   /\ inbound'[1].calls = <<>>
                   /\ nodes' = nodes /\ sent' = NoFrames /\ wsClients' = wsClients
                   /\ \A d \in Clients \ {c} : subscribedPaths'[d] = subscribedPaths[d]
                   /\ frame.json =>
                         subscribedPaths'[c] =
                            _handleWebSocketMessage(subscribedPaths[c], frame.message)
             /\ Unreadable(frame) =>
                   /\ inbound'[1].calls = <<>>
                   /\ nodes' = nodes
                   /\ subscribedPaths' = subscribedPaths
                   /\ wsClients' = wsClients
                   /\ sent' = NoFrames]_vars

\* C32 witness: the binary frame of "/a" with the argument 1 has been decoded
\* and passed once to receiveOSCMessage, which has set the value slot of the
\* method "/a".
C32_Witness ==
    /\ lastOp = "frame"
    /\ inbound # None
    /\ inbound[1].calls = <<[path |-> <<"/", "a">>, args |-> <<Num(2)>>]>>
    /\ _getNodeForPath(nodes, <<"/", "a">>) # Null
    /\ nodes[_getNodeForPath(nodes, <<"/", "a">>)].arguments # None
    /\ Slot(nodes[_getNodeForPath(nodes, <<"/", "a">>)], 0) = Num(2)

\* C32 witness of the last part: a frame of two bytes, "/a", has come from a
\* client that listens to "/a" and is still registered; no call was made.
C32_ShortFrameDropped ==
    /\ lastOp = "frame"
    /\ inbound # None
    /\ inbound[1].data = <<47, 97>>
    /\ inbound[1].calls = <<>>
    /\ inbound[1].from \in wsClients
    /\ subscribedPaths[inbound[1].from] = {<<"/", "a">>}

====
